---- MODULE Spec2Model ----
(***************************************************************************)
(* ogrep: outline-aware grep.  One input stream is read line by line; four *)
(* context providers (window, directive, outline, descendant) follow the   *)
(* stream and the printer emits context lines, match lines, ellipses,      *)
(* breaks and the filename heading.                                        *)
(*                                                                         *)
(* Text is a sequence of one-character strings.  Unsigned (usize) values   *)
(* that can wrap are kept as integers in which a negative value -k stands  *)
(* for 2^64 - k.                                                           *)
(***************************************************************************)
EXTENDS Integers, Sequences, FiniteSets, TLC

\* Bounds of the exploration.
MaxLines == 5
MaxIndent == 2
MaxBefore == 3
MaxAfter == 1

VARIABLES
    options,              \* Options: the configuration of the run
    overflow_checks,      \* build profile: TRUE = arithmetic overflow panics, FALSE = it wraps
    filepath,             \* NoPath for standard input, otherwise the stream's path
    input,                \* the lines read so far (line k is input[k])
    pc,                   \* "lines" while reading, "done" after end(), "panicked" after a panic;
                          \* in real_main also "main", "list", "failed", "wait", "exit"
    match_found,          \* process_input: at least one match was found
    was_empty_line,       \* process_input: a blank line was met since the last match
    textual,              \* TextualContext { context, trailing_lines_left }
    preprocessor,         \* PreprocessorContext { level, context }
    indentation,          \* IndentationContext { context }
    children,             \* ChildrenContext { last_line_indentation, match_indentation, context }
    printer,              \* Printer { output, last_printed_lineno, was_break }
    run                   \* real_main: its options, the pre-filter, match_found, the exit status

vars == <<options, overflow_checks, filepath, input, pc, match_found, was_empty_line,
          textual, preprocessor, indentation, children, printer, run>>

(***************************************************************************)
(* Text                                                                    *)
(***************************************************************************)

\* Option::None of an indentation or of match_indentation.
NoIndentation == -1

\* filepath: None (the stream is the standard input). A path is a text.
NoPath == <<>>

Letters == {"a", "b", "c", "d", "e", "f", "g", "h", "i", "j", "k", "l", "m",
            "n", "o", "p", "q", "r", "s", "t", "u", "v", "w", "x", "y", "z",
            "A", "B", "C", "D", "E", "F", "G", "H", "I", "J", "K", "L", "M",
            "N", "O", "P", "Q", "R", "S", "T", "U", "V", "W", "X", "Y", "Z"}

Digits == {"0", "1", "2", "3", "4", "5", "6", "7", "8", "9"}

\* char::is_ascii_alphanumeric
is_ascii_alphanumeric(c) == c \in Letters \cup Digits

\* char::is_whitespace
is_whitespace(c) == c \in {" ", "\t"}

\* The regex class \w, as far as ASCII goes.
is_word_char(c) == c \in Letters \cup Digits \cup {"_"}

\* str::starts_with
starts_with(text, prefix) ==
    /\ Len(prefix) <= Len(text)
    /\ SubSeq(text, 1, Len(prefix)) = prefix

\* &text[from..] with a 0-based offset.
slice_from(text, from) == SubSeq(text, from + 1, Len(text))

starts_with_word_no_boundary(text, prefix) == starts_with(text, prefix)

\* util::starts_with_word
starts_with_word(text, prefix) ==
    /\ starts_with(text, prefix)
    /\ \/ Len(text) = Len(prefix)
       \/ ~is_ascii_alphanumeric(text[Len(prefix) + 1])

\* calculate_indentation with a line of whitespace only taken as indented by its length.
calculate_indentation_of_blank_as_length(s) ==
    LET nonblank == {i \in 1..Len(s) : ~is_whitespace(s[i])}
    IN  IF nonblank = {} THEN Len(s)
        ELSE (CHOOSE i \in nonblank : \A j \in nonblank : i <= j) - 1

\* The 0-based offset of the first non-whitespace character, or NoIndentation.
calculate_indentation(s) ==
    LET nonblank == {i \in 1..Len(s) : ~is_whitespace(s[i])}
    IN  IF nonblank = {} THEN NoIndentation
        ELSE (CHOOSE i \in nonblank : \A j \in nonblank : i <= j) - 1

\* The 1-based position of the first non-whitespace character at or after i, Len(s)+1 if none.
skip_whitespace(s, i) ==
    LET rest == {j \in i..Len(s) : ~is_whitespace(s[j])}
    IN  IF rest = {} THEN Len(s) + 1
        ELSE CHOOSE j \in rest : \A k \in rest : j <= k

\* The positions right after a directive marker  ^\s*(?:#|\{%-?)  of s.
marker_ends(s) ==
    LET i == skip_whitespace(s, 1)
    IN  (IF i <= Len(s) /\ s[i] = "#" THEN {i + 1} ELSE {})
        \cup (IF i + 1 <= Len(s) /\ s[i] = "{" /\ s[i + 1] = "%" THEN {i + 2} ELSE {})
        \cup (IF i + 2 <= Len(s) /\ s[i] = "{" /\ s[i + 1] = "%" /\ s[i + 2] = "-"
              THEN {i + 3} ELSE {})

\* ^\s*(?:#|\{%-?)\s*keyword\b
directive_regex_is_match(s, keyword) ==
    \E m \in marker_ends(s) :
        LET k == skip_whitespace(s, m)
            e == k + Len(keyword)
        IN  /\ e - 1 <= Len(s)
            /\ SubSeq(s, k, e - 1) = keyword
            /\ \/ e > Len(s)
               \/ ~is_word_char(s[e])

\* PreprocessorContext::preprocessor_instruction_kind; "None" when s is no directive.
preprocessor_instruction_kind(s) ==
    IF directive_regex_is_match(s, <<"i", "f">>) THEN "If"
    ELSE IF directive_regex_is_match(s, <<"e", "l", "s", "e">>) THEN "Else"
    ELSE IF directive_regex_is_match(s, <<"e", "n", "d", "i", "f">>) THEN "Endif"
    ELSE IF marker_ends(s) # {} THEN "Other"
    ELSE "None"

\* The pattern searched for (a fixed string, as in the tests).
Pattern == <<"b", "l", "a">>

\* Regex::find_iter(..).peek().is_some(): the pattern occurs in the text.
is_match(text) ==
    \E i \in 1..Len(text) :
        /\ i + Len(Pattern) - 1 <= Len(text)
        /\ SubSeq(text, i, i + Len(Pattern) - 1) = Pattern

(***************************************************************************)
(* Unsigned arithmetic                                                     *)
(***************************************************************************)

\* a < b for usize values, a negative integer -k standing for 2^64 - k.
unsigned_less(a, b) == IF (a < 0) = (b < 0) THEN a < b ELSE b < 0

\* Iterator::rposition, given the 1-based positions of the elements that satisfy the
\* predicate: the last of them, 0 for None (so that truncate(top + 1 or 0) keeps 1..result).
rposition(hits) ==
    IF hits = {} THEN 0 ELSE CHOOSE i \in hits : \A j \in hits : j <= i

(***************************************************************************)
(* Printer.  The record holds the fields of the struct; output is the list *)
(* of what was written, and panicked is set when an assert! of the printer *)
(* fails (nothing is written after that).                                  *)
(***************************************************************************)

\* Printer::new
Printer_new == [output |-> <<>>, last_printed_lineno |-> 0, was_break |-> FALSE,
                panicked |-> FALSE]

\* Printer::reset
Printer_reset(p) == [p EXCEPT !.last_printed_lineno = 0, !.was_break = FALSE]

\* print_ellipsis with the test of the ellipsis option lost.
Printer_print_ellipsis_always(p, opts) ==
    [p EXCEPT !.output = Append(@, [event |-> "ellipsis", number |-> 0])]

\* Printer::print_ellipsis
Printer_print_ellipsis(p, opts) ==
    IF opts.ellipsis
    THEN [p EXCEPT !.output = Append(@, [event |-> "ellipsis", number |-> 0])]
    ELSE p

\* maybe_print_ellipsis with the test of was_break lost.
Printer_maybe_print_ellipsis_ignoring_break(p, opts, line_number) ==
    IF line_number > p.last_printed_lineno + 1
    THEN Printer_print_ellipsis(p, opts)
    ELSE p

\* maybe_print_ellipsis that takes no gap before the first printed line.
Printer_maybe_print_ellipsis_after_first(p, opts, line_number) ==
    IF p.was_break
    THEN [p EXCEPT !.was_break = FALSE]
    ELSE IF p.last_printed_lineno > 0 /\ line_number > p.last_printed_lineno + 1
         THEN Printer_print_ellipsis(p, opts)
         ELSE p

\* Printer::maybe_print_ellipsis
Printer_maybe_print_ellipsis(p, opts, line_number) ==
    IF p.was_break
    THEN [p EXCEPT !.was_break = FALSE]
    ELSE IF line_number > p.last_printed_lineno + 1
         THEN Printer_print_ellipsis(p, opts)
         ELSE p

\* Printer::print_context
Printer_print_context(p, opts, line_number) ==
    IF p.panicked THEN p
    ELSE IF ~(line_number > p.last_printed_lineno) THEN [p EXCEPT !.panicked = TRUE]
    ELSE LET q == Printer_maybe_print_ellipsis(p, opts, line_number)
         IN  [q EXCEPT !.output = Append(@, [event |-> "context", number |-> line_number]),
                       !.last_printed_lineno = line_number]

\* Printer::print_match
Printer_print_match(p, opts, line_number) ==
    IF p.panicked THEN p
    ELSE IF ~(line_number > p.last_printed_lineno) THEN [p EXCEPT !.panicked = TRUE]
    ELSE LET q == Printer_maybe_print_ellipsis(p, opts, line_number)
         IN  [q EXCEPT !.output = Append(@, [event |-> "match", number |-> line_number]),
                       !.last_printed_lineno = line_number]

\* print_break with the test of the breaks option lost.
Printer_print_break_always(p, opts) ==
    IF p.panicked THEN p
    ELSE [p EXCEPT !.output = Append(@, [event |-> "break", number |-> 0]),
                   !.was_break = TRUE]

\* Printer::print_break
Printer_print_break(p, opts) ==
    IF p.panicked THEN p
    ELSE IF opts.breaks
         THEN [p EXCEPT !.output = Append(@, [event |-> "break", number |-> 0]),
                        !.was_break = TRUE]
         ELSE p

\* Printer::print_heading_filename: a newline, then the name when the mode is PerFile.
Printer_print_heading_filename(p, opts) ==
    IF p.panicked THEN p
    ELSE IF ~(p.last_printed_lineno = 0) THEN [p EXCEPT !.panicked = TRUE]
    ELSE LET q == [p EXCEPT !.output = Append(@, [event |-> "newline", number |-> 0])]
         IN  IF opts.print_filename = "PerFile"
             THEN [q EXCEPT !.output = Append(@, [event |-> "heading", number |-> 0])]
             ELSE q

(***************************************************************************)
(* Window context (TextualContext)                                         *)
(***************************************************************************)

\* TextualContext::new
TextualContext_new == [context |-> <<>>, trailing_lines_left |-> 0]

\* TextualContext::pre_line without the expiry loop: no entry is ever popped.
TextualContext_pre_line_never_expires(self, line, p, opts, oc) ==
    [self |-> self, printer |-> p]

\* TextualContext::pre_line: the result is the provider and the printer after the loop.
\* line.number - context_lines_before is a usize subtraction: it panics on overflow when
\* the build checks overflow and wraps otherwise.
RECURSIVE TextualContext_pre_line(_, _, _, _, _)
TextualContext_pre_line(self, line, p, opts, oc) ==
    IF p.panicked \/ self.context = <<>>
    THEN [self |-> self, printer |-> p]
    ELSE IF oc /\ line.number < opts.context_lines_before
    THEN [self |-> self, printer |-> [p EXCEPT !.panicked = TRUE]]
    ELSE IF ~unsigned_less(Head(self.context).line.number,
                           line.number - opts.context_lines_before)
    THEN [self |-> self, printer |-> p]
    ELSE LET entry == Head(self.context)
         IN  TextualContext_pre_line(
                 [self EXCEPT !.context = Tail(@)], line,
                 IF entry.print_on_discard
                 THEN Printer_print_context(p, opts, entry.line.number)
                 ELSE p,
                 opts, oc)

\* TextualContext::post_line
TextualContext_post_line(self, line) ==
    [context |-> Append(self.context,
                        [line |-> line, print_on_discard |-> self.trailing_lines_left > 0]),
     trailing_lines_left |-> IF self.trailing_lines_left > 0
                             THEN self.trailing_lines_left - 1
                             ELSE self.trailing_lines_left]

\* TextualContext::dump
TextualContext_dump(self) == [i \in 1..Len(self.context) |-> self.context[i].line]

\* TextualContext::clear
TextualContext_clear(self, opts) ==
    [self EXCEPT !.trailing_lines_left = opts.context_lines_after]

\* TextualContext::end: the result is the provider and the printer after the loop.
RECURSIVE TextualContext_end(_, _, _)
TextualContext_end(self, p, opts) ==
    IF p.panicked \/ self.context = <<>> \/ ~Head(self.context).print_on_discard
    THEN [self |-> self, printer |-> p]
    ELSE TextualContext_end([self EXCEPT !.context = Tail(@)],
                            Printer_print_context(p, opts, Head(self.context).line.number),
                            opts)

(***************************************************************************)
(* Directive context (PreprocessorContext)                                 *)
(***************************************************************************)

\* PreprocessorContext::new
PreprocessorContext_new == [level |-> 0, context |-> <<>>]

\* pre_line with the test of the Preserve mode lost: a directive line is skipped in
\* every mode but Context.
PreprocessorContext_pre_line_without_preserve(self, line, ind, opts, oc) ==
    LET kind == preprocessor_instruction_kind(slice_from(line.text, ind))
    IN  [self |-> self,
         action |-> IF ind # NoIndentation /\ kind # "None" THEN "Skip" ELSE "Continue",
         panicked |-> FALSE]

\* pre_line with the Skip lost: every line goes on to the matcher.
PreprocessorContext_pre_line_never_skips(self, line, ind, opts, oc) ==
    [self |-> self, action |-> "Continue", panicked |-> FALSE]

\* PreprocessorContext::pre_line: the provider, the Action and whether level -= 1 panicked.
\* level is a usize: level -= 1 at 0 panics when the build checks overflow and wraps
\* otherwise (level += 1 at 2^64 - 1 likewise, which only a wrapped level reaches).
PreprocessorContext_pre_line(self, line, ind, opts, oc) ==
    LET kind == preprocessor_instruction_kind(slice_from(line.text, ind))
        continue == [self |-> self, action |-> "Continue", panicked |-> FALSE]
        skip == [self |-> self, action |-> "Skip", panicked |-> FALSE]
    IN  IF ind = NoIndentation THEN continue
        ELSE IF opts.preprocessor = "Preserve" THEN continue
        ELSE IF opts.preprocessor = "Ignore"
        THEN (IF kind # "None" THEN skip ELSE continue)
        ELSE CASE kind = "None" -> continue
               [] kind = "If" -> [skip EXCEPT !.self.level = @ + 1]
               [] kind = "Else" -> skip
               [] kind = "Endif" ->
                    LET top == rposition({i \in 1..Len(self.context) :
                                   unsigned_less(self.context[i].level, self.level)})
                        truncated == [self EXCEPT !.context = SubSeq(@, 1, top)]
                    IN  IF self.level = 0 /\ oc
                        THEN [skip EXCEPT !.self = truncated, !.panicked = TRUE]
                        ELSE [skip EXCEPT !.self = [truncated EXCEPT !.level = @ - 1]]
               [] kind = "Other" -> skip

\* PreprocessorContext::post_line
PreprocessorContext_post_line(self, line, ind, opts) ==
    IF ind = NoIndentation THEN self
    ELSE IF opts.preprocessor # "Context" THEN self
    ELSE LET kind == preprocessor_instruction_kind(slice_from(line.text, ind))
         IN  IF kind \in {"If", "Else"}
             THEN [self EXCEPT !.context = Append(@, [line |-> line, level |-> self.level])]
             ELSE self

\* PreprocessorContext::dump
PreprocessorContext_dump(self) == [i \in 1..Len(self.context) |-> self.context[i].line]

\* PreprocessorContext::clear
PreprocessorContext_clear(self) == [self EXCEPT !.context = <<>>]

(***************************************************************************)
(* Outline context (IndentationContext)                                    *)
(***************************************************************************)

\* SMART_BRANCH_PREFIXES
SMART_BRANCH_PREFIXES ==
    << [prefix |-> <<"}", " ", "e", "l", "s", "e", " ">>,
        context_prefixes |-> {<<"i", "f">>,
                              <<"}", " ", "e", "l", "s", "e", " ", "i", "f">>}],
       [prefix |-> <<"e", "l", "s", "e", ":">>,
        context_prefixes |-> {<<"i", "f">>, <<"e", "l", "s", "e", " ", "i", "f">>}],
       [prefix |-> <<"c", "a", "s", "e">>,
        context_prefixes |-> {<<"s", "w", "i", "t", "c", "h">>}] >>

\* IndentationContext::new
IndentationContext_new == [context |-> <<>>]

\* The loop over SMART_BRANCH_PREFIXES in the closure of pre_line: the first entry whose
\* prefix starts the current line decides.
smart_branch_keeps(stripped_line, stripped_context_line) ==
    LET hits == {k \in 1..Len(SMART_BRANCH_PREFIXES) :
                     starts_with_word(stripped_line, SMART_BRANCH_PREFIXES[k].prefix)}
    IN  /\ hits # {}
        /\ LET first == CHOOSE k \in hits : \A j \in hits : k <= j
           IN  \E q \in SMART_BRANCH_PREFIXES[first].context_prefixes :
                   starts_with_word(stripped_context_line, q)

\* The truncation with the equal-indentation test lost: siblings stay on the stack.
IndentationContext_pre_line_keeping_siblings(self, line, ind, opts) ==
    IF ind = NoIndentation THEN self
    ELSE LET keep(e) == e.indentation <= ind
             top == rposition({i \in 1..Len(self.context) : keep(self.context[i])})
         IN  [self EXCEPT !.context = SubSeq(@, 1, top)]

\* IndentationContext::pre_line
IndentationContext_pre_line(self, line, ind, opts) ==
    IF ind = NoIndentation THEN self
    ELSE LET keep(e) ==
                 IF e.indentation < ind THEN TRUE
                 ELSE IF e.indentation > ind THEN FALSE
                 ELSE IF ~opts.smart_branches THEN FALSE
                 ELSE smart_branch_keeps(slice_from(line.text, ind),
                                         slice_from(e.line.text, e.indentation))
             top == rposition({i \in 1..Len(self.context) : keep(self.context[i])})
         IN  [self EXCEPT !.context = SubSeq(@, 1, top)]

\* IndentationContext::post_line: the provider and whether the assert! failed.
IndentationContext_post_line(self, line, ind, opts) ==
    IF ind = NoIndentation THEN [self |-> self, panicked |-> FALSE]
    ELSE LET ok == IF self.context = <<>> THEN TRUE
                   ELSE IF opts.smart_branches
                        THEN self.context[Len(self.context)].indentation <= ind
                        ELSE self.context[Len(self.context)].indentation < ind
         IN  IF ok
             THEN [self |-> [self EXCEPT !.context =
                                 Append(@, [line |-> line, indentation |-> ind])],
                   panicked |-> FALSE]
             ELSE [self |-> self, panicked |-> TRUE]

\* dump with the nearest entry only: the entries below the top of the stack are lost.
IndentationContext_dump_nearest(self) ==
    IF self.context = <<>> THEN <<>>
    ELSE <<self.context[Len(self.context)].line>>

\* IndentationContext::dump
IndentationContext_dump(self) == [i \in 1..Len(self.context) |-> self.context[i].line]

\* IndentationContext::clear
IndentationContext_clear(self) == [self EXCEPT !.context = <<>>]

(***************************************************************************)
(* Descendant context (ChildrenContext)                                    *)
(***************************************************************************)

\* ChildrenContext::new
ChildrenContext_new ==
    [last_line_indentation |-> 0, match_indentation |-> NoIndentation, context |-> <<>>]

\* ChildrenContext::pre_line
ChildrenContext_pre_line(self, line, ind) ==
    IF ind # NoIndentation THEN [self EXCEPT !.last_line_indentation = ind] ELSE self

\* post_line with unwrap_or(false): a line without indentation disarms the provider.
ChildrenContext_post_line_blank_disarms(self, line, ind) ==
    IF self.match_indentation = NoIndentation THEN self
    ELSE IF (IF ind # NoIndentation THEN ind > self.match_indentation ELSE FALSE)
    THEN [self EXCEPT !.context = Append(@, line)]
    ELSE [self EXCEPT !.match_indentation = NoIndentation]

\* ChildrenContext::post_line
ChildrenContext_post_line(self, line, ind) ==
    IF self.match_indentation = NoIndentation THEN self
    ELSE IF (IF ind # NoIndentation THEN ind > self.match_indentation ELSE TRUE)
    THEN [self EXCEPT !.context = Append(@, line)]
    ELSE [self EXCEPT !.match_indentation = NoIndentation]

\* ChildrenContext::dump
ChildrenContext_dump(self) == self.context

\* ChildrenContext::clear
ChildrenContext_clear(self) ==
    [self EXCEPT !.match_indentation = IF @ = NoIndentation
                                       THEN self.last_line_indentation
                                       ELSE @,
                 !.context = <<>>]

\* ChildrenContext::end: the printer after the loop.
RECURSIVE ChildrenContext_end(_, _, _)
ChildrenContext_end(self, p, opts) ==
    IF self.context = <<>> THEN p
    ELSE ChildrenContext_end([self EXCEPT !.context = Tail(@)],
                             Printer_print_context(p, opts, Head(self.context).number),
                             opts)

(***************************************************************************)
(* Compositor (process_input): the providers are driven in the order       *)
(* window, directive, outline, descendant.                                  *)
(***************************************************************************)

\* The merge of the dumps by ascending line number (the least head first).
RECURSIVE kmerge(_)
kmerge(seqs) ==
    LET nonempty == {i \in 1..Len(seqs) : seqs[i] # <<>>}
    IN  IF nonempty = {} THEN <<>>
        ELSE LET i == CHOOSE k \in nonempty : \A j \in nonempty :
                          \/ Head(seqs[k]).number < Head(seqs[j]).number
                          \/ Head(seqs[k]).number = Head(seqs[j]).number /\ k <= j
             IN  <<Head(seqs[i])>> \o kmerge([seqs EXCEPT ![i] = Tail(@)])

\* Adjacent entries with the same line number are folded into the first of them.
RECURSIVE coalesce(_)
coalesce(lines) ==
    IF Len(lines) < 2 THEN lines
    ELSE IF lines[1].number = lines[2].number
    THEN coalesce(<<lines[1]>> \o SubSeq(lines, 3, Len(lines)))
    ELSE <<lines[1]>> \o coalesce(Tail(lines))

\* print_context for every line of the merged context, in order.
RECURSIVE print_combined_context(_, _, _)
print_combined_context(p, opts, lines) ==
    IF lines = <<>> THEN p
    ELSE print_combined_context(Printer_print_context(p, opts, Head(lines).number),
                                opts, Tail(lines))

\* What all providers dump at a match.
combined_context(S, opts) ==
    coalesce(kmerge(
        <<TextualContext_dump(S.textual),
          PreprocessorContext_dump(S.preprocessor),
          IndentationContext_dump(S.indentation)>>
        \o (IF opts.children THEN <<ChildrenContext_dump(S.children)>> ELSE <<>>)))

\* Step 3 for a matching line: heading, break, merged context, match line, clear().
on_match(S, opts, fp, line) ==
    LET p1 == IF ~S.match_found /\ fp # NoPath
              THEN Printer_print_heading_filename(S.printer, opts)
              ELSE S.printer
        p2 == IF S.was_empty_line /\ S.match_found
              THEN Printer_print_break(p1, opts)
              ELSE p1
        p3 == print_combined_context(p2, opts, combined_context(S, opts))
        p4 == Printer_print_match(p3, opts, line.number)
    IN  IF p4.panicked
        THEN [S EXCEPT !.printer = p4, !.panicked = TRUE]
        ELSE [S EXCEPT !.printer = p4,
                       !.textual = TextualContext_clear(S.textual, opts),
                       !.preprocessor = PreprocessorContext_clear(S.preprocessor),
                       !.indentation = IndentationContext_clear(S.indentation),
                       !.children = IF opts.children
                                    THEN ChildrenContext_clear(S.children)
                                    ELSE S.children,
                       !.was_empty_line = FALSE,
                       !.match_found = TRUE]

\* Step 4 for a line that does not match: post_line on every provider.
on_no_match(S, opts, line, ind) ==
    LET o == IndentationContext_post_line(S.indentation, line, ind, opts)
        S1 == [S EXCEPT !.textual = TextualContext_post_line(S.textual, line),
                        !.preprocessor =
                            PreprocessorContext_post_line(S.preprocessor, line, ind, opts),
                        !.indentation = o.self]
    IN  IF o.panicked
        THEN [S1 EXCEPT !.panicked = TRUE]
        ELSE [S1 EXCEPT !.children = IF opts.children
                                     THEN ChildrenContext_post_line(S.children, line, ind)
                                     ELSE S.children]

\* The body of the loop over the lines, for one line.
process_line(S, opts, oc, fp, line) ==
    LET ind == calculate_indentation(line.text)
        t == TextualContext_pre_line(S.textual, line, S.printer, opts, oc)
        d == PreprocessorContext_pre_line(S.preprocessor, line, ind, opts, oc)
        S1 == [S EXCEPT !.was_empty_line = IF ind = NoIndentation THEN TRUE ELSE @,
                        !.textual = t.self,
                        !.printer = t.printer]
    IN  IF t.printer.panicked THEN [S1 EXCEPT !.panicked = TRUE]
        ELSE IF d.panicked THEN [S1 EXCEPT !.preprocessor = d.self, !.panicked = TRUE]
        ELSE IF d.action = "Skip" THEN [S1 EXCEPT !.preprocessor = d.self]
        ELSE LET S2 == [S1 EXCEPT
                           !.preprocessor = d.self,
                           !.indentation =
                               IndentationContext_pre_line(S.indentation, line, ind, opts),
                           !.children = IF opts.children
                                        THEN ChildrenContext_pre_line(S.children, line, ind)
                                        ELSE S.children]
             IN  IF is_match(line.text)
                 THEN on_match(S2, opts, fp, line)
                 ELSE on_no_match(S2, opts, line, ind)

\* After the last line: end() on every provider.
end_of_input(S, opts) ==
    LET t == TextualContext_end(S.textual, S.printer, opts)
        p == IF opts.children
             THEN ChildrenContext_end(S.children, t.printer, opts)
             ELSE t.printer
    IN  [S EXCEPT !.textual = t.self, !.printer = p, !.panicked = p.panicked]

\* The state of process_input at its start: fresh providers, printer reset.
initial_state ==
    [textual |-> TextualContext_new,
     preprocessor |-> PreprocessorContext_new,
     indentation |-> IndentationContext_new,
     children |-> ChildrenContext_new,
     printer |-> Printer_reset(Printer_new),
     match_found |-> FALSE,
     was_empty_line |-> FALSE,
     panicked |-> FALSE]

\* The loop of process_input over a sequence of numbered lines, from state S.
RECURSIVE process_lines(_, _, _, _, _)
process_lines(S, opts, oc, fp, lines) ==
    IF lines = <<>> \/ S.panicked THEN S
    ELSE process_lines(process_line(S, opts, oc, fp, Head(lines)), opts, oc, fp, Tail(lines))

\* process_input as a whole: the loop, then end() unless the loop panicked.
process_input(opts, oc, fp, lines) ==
    LET S == process_lines(initial_state, opts, oc, fp, lines)
    IN  IF S.panicked THEN S ELSE end_of_input(S, opts)

(***************************************************************************)
(* The state machine                                                       *)
(***************************************************************************)

State ==
    [textual |-> textual, preprocessor |-> preprocessor, indentation |-> indentation,
     children |-> children, printer |-> printer, match_found |-> match_found,
     was_empty_line |-> was_empty_line, panicked |-> pc = "panicked"]

Spaces(n) == [i \in 1..n |-> " "]

\* The texts at every indentation up to deepest.
IndentedLines(texts, deepest) == {Spaces(i) \o t : i \in 0..deepest, t \in texts}

\* The lines a stream may hold: each text at each indentation.
Lines(texts) == IndentedLines(texts, MaxIndent)

Preprocessors == {"Context", "Ignore", "Preserve"}

\* The options of the tests (tests.rs, default_options).
default_options ==
    [breaks |-> FALSE, ellipsis |-> FALSE, print_filename |-> "No",
     smart_branches |-> FALSE, preprocessor |-> "Preserve",
     context_lines_before |-> 0, context_lines_after |-> 0, children |-> FALSE]

\* real_main is not running: process_input is driven on its own, as the tests do.
\* use_git_grep and input are options; exists is the set of paths that can be opened;
\* listing is what git grep has yet to print and line the String its lines are read into;
\* status is the exit status of git grep; error is the Err real_main returns, code the
\* value of its Ok, exit_code the status the process exits with. matched records whether
\* a line of a completed stream held the pattern, and at_error the output, the lines
\* read and the listing left when a read failed. first holds the lines and the result of
\* a first call of process_input while second, a call on the same lines, is under way.
NoRun ==
    [use_git_grep |-> FALSE, input |-> NoPath, exists |-> {}, listing |-> <<>>,
     line |-> <<>>, status |-> "running", match_found |-> FALSE, error |-> "none",
     code |-> -1, exit_code |-> -1, matched |-> FALSE,
     at_error |-> [output |-> <<>>, lines |-> 0, listing |-> <<>>],
     second |-> FALSE,
     first |-> [lines |-> <<>>, output |-> <<>>, match_found |-> FALSE,
                panicked |-> FALSE]]

\* The start of process_input under the given options, build profile and path.
Start(opts, oc, fp) ==
    /\ options = opts
    /\ overflow_checks = oc
    /\ filepath = fp
    /\ input = <<>>
    /\ pc = "lines"
    /\ match_found = initial_state.match_found
    /\ was_empty_line = initial_state.was_empty_line
    /\ textual = initial_state.textual
    /\ preprocessor = initial_state.preprocessor
    /\ indentation = initial_state.indentation
    /\ children = initial_state.children
    /\ printer = initial_state.printer
    /\ run = NoRun

Become(S) ==
    /\ textual' = S.textual
    /\ preprocessor' = S.preprocessor
    /\ indentation' = S.indentation
    /\ children' = S.children
    /\ printer' = S.printer
    /\ match_found' = S.match_found
    /\ was_empty_line' = S.was_empty_line

\* One iteration of the loop of process_input on the next line of the stream.
ReadLine(lines) ==
    /\ pc = "lines"
    /\ Len(input) < MaxLines
    /\ \E text \in lines :
        LET S == process_line(State, options, overflow_checks, filepath,
                              [number |-> Len(input) + 1, text |-> text])
        IN  /\ input' = Append(input, text)
            /\ Become(S)
            /\ pc' = IF S.panicked THEN "panicked" ELSE "lines"
    /\ UNCHANGED <<options, overflow_checks, filepath, run>>

\* The stream ends: end() on every provider, process_input returns.
EndOfInput ==
    /\ pc = "lines"
    /\ LET S == end_of_input(State, options)
       IN  /\ Become(S)
           /\ pc' = IF S.panicked THEN "panicked" ELSE "done"
    /\ UNCHANGED <<options, overflow_checks, filepath, input, run>>

(***************************************************************************)
(* Texts of the streams                                                    *)
(***************************************************************************)

Blank == <<>>
PlainText == <<"x">>
MatchText == <<"b", "l", "a">>

(***************************************************************************)
(* Helpers of the properties                                               *)
(***************************************************************************)

\* The line numbers printed as context / as match, in output order.
EventNumbers(out, event) ==
    LET pick == SelectSeq(out, LAMBDA e : e.event = event)
    IN  [i \in 1..Len(pick) |-> pick[i].number]

Range(s) == {s[i] : i \in 1..Len(s)}

IndentOf(k) == calculate_indentation(input[k])

NonBlank(k) == IndentOf(k) # NoIndentation

MatchLines == {k \in 1..Len(input) : is_match(input[k])}

\* The chain of indentation ancestors of line n, in ascending line order: the nearest
\* preceding line of strictly smaller indentation, then that line's own chain.
RECURSIVE AncestorChain(_)
AncestorChain(n) ==
    LET above == {j \in 1..(n - 1) : NonBlank(j) /\ IndentOf(j) < IndentOf(n)}
    IN  IF above = {} THEN <<>>
        ELSE LET parent == CHOOSE j \in above : \A k \in above : k <= j
             IN  Append(AncestorChain(parent), parent)

(***************************************************************************)
(* SpecAncestors: the options of the tests (Preserve, no smart branches,   *)
(* no window, no descendants), plain and matching lines at every           *)
(* indentation.                                                            *)
(***************************************************************************)

InitAncestors == Start(default_options, FALSE, NoPath)

\* The lines a stream of SpecAncestors is made of.
AncestorsLines ==
    Lines({PlainText, MatchText})

NextAncestors == ReadLine(AncestorsLines) \/ EndOfInput

SpecAncestors == InitAncestors /\ [][NextAncestors]_vars

\* C1 (ancestor correctness): when every line read is non-blank and only the last one
\* matches, the output is exactly the chain of indentation ancestors of that line, as
\* context lines in ascending order, followed by the match line.
C1_AncestorCorrectness ==
    (/\ input # <<>>
     /\ MatchLines = {Len(input)}
     /\ \A k \in 1..Len(input) : NonBlank(k))
    => /\ pc # "panicked"
       /\ EventNumbers(printer.output, "context") = AncestorChain(Len(input))
       /\ EventNumbers(printer.output, "match") = <<Len(input)>>
       /\ printer.output[Len(printer.output)].event = "match"

\* A match with two ancestors and a discarded branch between them (foo / bar / baz / qux / bla).
C1_Witness ==
    /\ Len(input) = 5
    /\ MatchLines = {5}
    /\ <<IndentOf(1), IndentOf(2), IndentOf(3), IndentOf(4), IndentOf(5)>> = <<0, 1, 2, 1, 2>>
    /\ EventNumbers(printer.output, "context") = <<1, 4>>
    /\ EventNumbers(printer.output, "match") = <<5>>

(***************************************************************************)
(* SpecBranches: Preserve, smart branches on or off, no window, no         *)
(* descendants; plain and matching lines at every indentation and branch   *)
(* headers at indentation 0.                                               *)
(***************************************************************************)

IfText == <<"i", "f", " ", "a", " ", "{">>
ElseText == <<"}", " ", "e", "l", "s", "e", " ", "{">>
ElseIfText == <<"}", " ", "e", "l", "s", "e", " ", "i", "f", " ", "b", " ", "{">>
PythonElseText == <<"e", "l", "s", "e", ":">>

InitBranches ==
    \E smart \in BOOLEAN :
        Start([default_options EXCEPT !.smart_branches = smart], FALSE, NoPath)

\* The lines a stream of SpecBranches is made of.
BranchesLines ==
    Lines({PlainText, MatchText}) \cup {IfText, ElseText, ElseIfText, PythonElseText}

NextBranches ==
    \/ ReadLine(BranchesLines)
    \/ EndOfInput

SpecBranches == InitBranches /\ [][NextBranches]_vars

\* The text of line k without its indentation.
Stripped(k) == slice_from(input[k], IndentOf(k))

\* Line i is a branch opener (it starts with the word `if`), line j a branch continuation
\* (it starts with `} else ` or `else:`) at the same indentation, every line between them
\* and after j is deeper, and the last line is the only match.
ElseBranchOfIf(i, j) ==
    LET n == Len(input)
    IN  /\ 1 <= i /\ i < j /\ j < n
        /\ MatchLines = {n}
        /\ \A k \in 1..n : NonBlank(k)
        /\ starts_with_word(Stripped(i), <<"i", "f">>)
        /\ \/ starts_with(Stripped(j), <<"}", " ", "e", "l", "s", "e", " ">>)
           \/ starts_with(Stripped(j), <<"e", "l", "s", "e", ":">>)
        /\ IndentOf(j) = IndentOf(i)
        /\ \A k \in (i + 1)..n : k # j => IndentOf(k) > IndentOf(i)

\* C2 (smart-branch retention): for an else line at the indentation of a stacked `if`
\* line and a later match inside the else branch, the `if` line is printed together with
\* the else line when smart branches is on, and only the else line when it is off.
C2_SmartBranchRetention ==
    \A i, j \in 1..Len(input) :
        ElseBranchOfIf(i, j)
        => /\ j \in Range(EventNumbers(printer.output, "context"))
           /\ i \in Range(EventNumbers(printer.output, "context")) <=> options.smart_branches

(***************************************************************************)
(* SpecIgnore: directive mode Ignore without and with a window, in both    *)
(* build profiles; plain and matching lines at two indentations and        *)
(* directive lines of every kind.                                          *)
(***************************************************************************)

IfDirectiveText == <<"#", "i", "f", " ", "b", "l", "a">>
ElseDirectiveText == <<"#", "e", "l", "s", "e">>
EndifDirectiveText == <<"#", "e", "n", "d", "i", "f">>
OtherDirectiveText == <<"#", "i", "f", "d", "e", "f", " ", "b", "l", "a">>

DirectiveTexts ==
    {IfDirectiveText, ElseDirectiveText, EndifDirectiveText, OtherDirectiveText}

InitIgnore ==
    \E b \in {0, MaxBefore}, a \in {0, MaxAfter}, oc \in BOOLEAN :
        Start([default_options EXCEPT !.preprocessor = "Ignore",
                                      !.context_lines_before = b,
                                      !.context_lines_after = a],
              oc, NoPath)

\* The lines a stream of SpecIgnore is made of.
IgnoreLines ==
    IndentedLines({PlainText, MatchText}, 1) \cup DirectiveTexts

NextIgnore ==
    \/ ReadLine(IgnoreLines)
    \/ EndOfInput

SpecIgnore == InitIgnore /\ [][NextIgnore]_vars

\* Line k is classified as a directive (If, Else, Endif or Other).
IsDirective(k) == NonBlank(k) /\ preprocessor_instruction_kind(Stripped(k)) # "None"

DirectiveLines == {k \in 1..Len(input) : IsDirective(k)}

\* The lines read so far, numbered.
NumberedInput == [k \in 1..Len(input) |-> [number |-> k, text |-> input[k]]]

\* The lines read so far without the directive lines, each keeping its number.
WithoutDirectives ==
    SelectSeq(NumberedInput,
              LAMBDA l : LET ind == calculate_indentation(l.text)
                         IN  \/ ind = NoIndentation
                             \/ preprocessor_instruction_kind(slice_from(l.text, ind)) = "None")

\* What is written for the stream without its directive lines, up to the same point.
OutputWithoutDirectives ==
    IF pc = "done"
    THEN process_input(options, overflow_checks, filepath, WithoutDirectives).printer.output
    ELSE process_lines(initial_state, options, overflow_checks, filepath,
                       WithoutDirectives).printer.output

PrintedNumbers == {printer.output[i].number : i \in 1..Len(printer.output)}

\* Directive lines are printed neither as context nor as a match.
DirectivesNeverPrinted == DirectiveLines \cap PrintedNumbers = {}

\* C3 (directive mode Ignore): no directive line is printed, and once the stream has
\* ended what was printed is what is printed for the same stream without its directive
\* lines (the other lines keeping their numbers).
C3_IgnoreDirectives ==
    /\ DirectivesNeverPrinted
    /\ pc = "done" => printer.output = OutputWithoutDirectives

(***************************************************************************)
(* SpecContext: directive mode Context in both build profiles, no window,  *)
(* no descendants; plain and matching lines at every indentation and       *)
(* directive lines of every kind.                                          *)
(***************************************************************************)

InitContext ==
    \E oc \in BOOLEAN :
        Start([default_options EXCEPT !.preprocessor = "Context"], oc, NoPath)

\* The lines a stream of SpecContext is made of.
ContextLines ==
    Lines({PlainText, MatchText}) \cup DirectiveTexts

NextContext ==
    \/ ReadLine(ContextLines)
    \/ EndOfInput

SpecContext == InitContext /\ [][NextContext]_vars

\* The kind of line k: "If", "Else", "Endif", "Other", or "None" for ordinary text.
KindOf(k) == IF NonBlank(k) THEN preprocessor_instruction_kind(Stripped(k)) ELSE "None"

\* The lines that are tested against the pattern in Context mode and match.
OrdinaryMatchLines == {k \in MatchLines : KindOf(k) = "None"}

\* The outline ancestors of line n when the directive lines are left out of the outline.
RECURSIVE OrdinaryAncestors(_)
OrdinaryAncestors(n) ==
    LET above == {j \in 1..(n - 1) :
                      NonBlank(j) /\ KindOf(j) = "None" /\ IndentOf(j) < IndentOf(n)}
    IN  IF above = {} THEN {}
        ELSE LET parent == CHOOSE j \in above : \A k \in above : k <= j
             IN  OrdinaryAncestors(parent) \cup {parent}

\* The If lines, and the Else lines that follow an If line.
OpenDirectives ==
    {k \in 1..Len(input) :
        \/ KindOf(k) = "If"
        \/ KindOf(k) = "Else" /\ \E i \in 1..(k - 1) : KindOf(i) = "If"}

\* The sequence of the elements of a set of numbers in ascending order.
RECURSIVE Ascending(_)
Ascending(set) ==
    IF set = {} THEN <<>>
    ELSE LET least == CHOOSE x \in set : \A y \in set : x <= y
         IN  <<least>> \o Ascending(set \ {least})

\* C4 (directive mode Context): at the first match of a stream in which no Endif was
\* read, so that every directive scope is still open, the context printed is the If and
\* Else lines of the open scopes merged by line number with the outline ancestors of
\* the match, the outline being the one of the stream without its directive lines.
C4_ContextDirectives ==
    LET n == Len(input)
    IN  (/\ n >= 1
         /\ OrdinaryMatchLines = {n}
         /\ \A k \in 1..n : KindOf(k) # "Endif" /\ NonBlank(k))
        => EventNumbers(printer.output, "context")
               = Ascending(OpenDirectives \cup OrdinaryAncestors(n))

(***************************************************************************)
(* SpecPreserve: directive mode Preserve (the default), no window, no      *)
(* descendants; plain and matching lines at three indentations and If and *)
(* Else directive lines, the If one holding the pattern.                   *)
(***************************************************************************)

InitPreserve == Start([default_options EXCEPT !.preprocessor = "Preserve"], FALSE, NoPath)

\* The lines a stream of SpecPreserve is made of.
PreserveLines ==
    IndentedLines({PlainText, MatchText}, 2) \cup {IfDirectiveText, ElseDirectiveText}

NextPreserve ==
    \/ ReadLine(PreserveLines)
    \/ EndOfInput

SpecPreserve == InitPreserve /\ [][NextPreserve]_vars

\* The stream of the directive tests: foo / #if defined(yup) / bar / baz / #else / qux /
\* bla / #endif.
test_preprocessor_input ==
    << <<"f", "o", "o">>,
       <<"#", "i", "f", " ", "d", "e", "f", "i", "n", "e", "d", "(", "y", "u", "p", ")">>,
       Spaces(2) \o <<"b", "a", "r">>,
       Spaces(4) \o <<"b", "a", "z">>,
       <<"#", "e", "l", "s", "e">>,
       Spaces(2) \o <<"q", "u", "x">>,
       Spaces(4) \o <<"b", "l", "a">>,
       <<"#", "e", "n", "d", "i", "f">> >>

\* What process_input prints for the stream of the directive tests in the given mode.
test_preprocessor_output(mode) ==
    process_input([default_options EXCEPT !.preprocessor = mode], FALSE, NoPath,
                  [k \in 1..Len(test_preprocessor_input) |->
                       [number |-> k, text |-> test_preprocessor_input[k]]]).printer.output

\* test_preprocessor_preserve: what is printed in the Preserve mode.
test_preprocessor_preserve == test_preprocessor_output("Preserve")

\* The outline stack holds lines of strictly increasing indentation.
OutlineIncreasing ==
    \A i \in 1..(Len(indentation.context) - 1) :
        indentation.context[i].indentation < indentation.context[i + 1].indentation

\* C5 (directive mode Preserve): the directive provider never stores a line, and a
\* directive line is handled like ordinary text: it is tested against the pattern and
\* printed as a match with its outline ancestors as context when it matches, and it
\* truncates the outline stack by its indentation and is pushed on it when it does not;
\* a later match has it among its ancestors like any other line (the stream of the
\* directive tests prints #else, qux, bla).
C5_PreserveDirectives ==
    LET n == Len(input)
    IN  /\ preprocessor = PreprocessorContext_new
        /\ pc # "panicked"
        /\ (n >= 1 /\ IsDirective(n) /\ is_match(input[n]))
           => /\ n \in Range(EventNumbers(printer.output, "match"))
              /\ Range(AncestorChain(n)) \subseteq PrintedNumbers
              /\ indentation.context = <<>>
        /\ (n >= 1 /\ IsDirective(n) /\ ~is_match(input[n]))
           => /\ indentation.context # <<>>
              /\ indentation.context[Len(indentation.context)]
                     = [line |-> [number |-> n, text |-> input[n]],
                        indentation |-> IndentOf(n)]
              /\ OutlineIncreasing
        /\ (n >= 1 /\ MatchLines = {n} /\ \A k \in 1..n : NonBlank(k))
           => EventNumbers(printer.output, "context") = AncestorChain(n)
        /\ test_preprocessor_preserve
               = <<[event |-> "context", number |-> 5],
                   [event |-> "context", number |-> 6],
                   [event |-> "match", number |-> 7]>>

\* A match below an Else directive line and a plain line (#else / qux / bla): the
\* directive line is printed as the outermost ancestor.
C5_Witness ==
    /\ Len(input) = 3
    /\ KindOf(1) = "Else"
    /\ <<IndentOf(1), IndentOf(2), IndentOf(3)>> = <<0, 1, 2>>
    /\ MatchLines = {3}
    /\ printer.output = <<[event |-> "context", number |-> 1],
                          [event |-> "context", number |-> 2],
                          [event |-> "match", number |-> 3]>>

(***************************************************************************)
(* SpecWindow: every before- and after-distance in both build profiles,    *)
(* Preserve, no descendants; plain and matching lines at two indentations  *)
(* and blank lines.                                                        *)
(***************************************************************************)

InitWindow ==
    \E b \in 0..MaxBefore, a \in 0..MaxAfter, oc \in BOOLEAN :
        Start([default_options EXCEPT !.context_lines_before = b,
                                      !.context_lines_after = a], oc, NoPath)

\* The lines a stream of SpecWindow is made of.
WindowLines ==
    IndentedLines({PlainText, MatchText}, 1) \cup {Blank}

NextWindow ==
    \/ ReadLine(WindowLines)
    \/ EndOfInput

SpecWindow == InitWindow /\ [][NextWindow]_vars

\* C6 (before-context): with before-distance B, once the match on line n is handled
\* every line of [n-B, n-1] that does not match is printed (those not printed before
\* were printed as context of this match), and the window holds no line numbered
\* below n-B, so that it contributes none as before-context.
C6_BeforeContext ==
    LET n == Len(input)
        B == options.context_lines_before
    IN  (n >= 1 /\ is_match(input[n]))
        => /\ \A k \in 1..(n - 1) :
                  (k >= n - B /\ ~is_match(input[k])) => k \in PrintedNumbers
           /\ \A i \in 1..Len(textual.context) :
                  textual.context[i].line.number >= n - B

\* How many times line k was printed.
TimesPrinted(k) ==
    Cardinality({i \in 1..Len(printer.output) :
                    /\ printer.output[i].event \in {"context", "match"}
                    /\ printer.output[i].number = k})

\* The lines after match m that do not match, up to line k.
NonMatchingBetween(m, k) == {j \in (m + 1)..k : ~is_match(input[j])}

\* The after-context of the stream: the first M non-matching lines after each match.
AfterContextLines ==
    {k \in 1..Len(input) :
        /\ ~is_match(input[k])
        /\ \E m \in MatchLines :
               m < k /\ Cardinality(NonMatchingBetween(m, k)) <= options.context_lines_after}

\* C7 (after-context): with after-distance M and any before-distance, when the run is over
\* (also by a panic) each of the first M non-matching lines that follow a match has
\* been printed exactly once, whether or not another match occurs within those M lines.
C7_AfterContext ==
    pc \in {"done", "panicked"} => \A k \in AfterContextLines : TimesPrinted(k) = 1

(***************************************************************************)
(* SpecChildren: descendants enabled, Preserve, no window; plain and       *)
(* matching lines at every indentation and blank lines.                    *)
(***************************************************************************)

InitChildren == Start([default_options EXCEPT !.children = TRUE], FALSE, NoPath)

\* The lines a stream of SpecChildren is made of.
ChildrenLines ==
    Lines({PlainText, MatchText}) \cup {Blank}

NextChildren ==
    \/ ReadLine(ChildrenLines)
    \/ EndOfInput

SpecChildren == InitChildren /\ [][NextChildren]_vars

\* The lines that follow line m up to, not including, the first non-blank line whose
\* indentation is not greater than that of m.
DescendantRun(m) ==
    {k \in (m + 1)..Len(input) :
        \A j \in (m + 1)..k : NonBlank(j) => IndentOf(j) > IndentOf(m)}

\* C8 (descendant context): with the descendant provider enabled, when the stream has
\* ended every line deeper than a match that follows it before the first non-blank
\* line not deeper than the match is printed, and every printed line is a match, a
\* line of such a run or an outline ancestor of a match.
C8_DescendantContext ==
    pc = "done"
    => /\ \A m \in MatchLines : \A k \in DescendantRun(m) :
              NonBlank(k) => k \in PrintedNumbers
       /\ \A k \in PrintedNumbers :
              \/ k \in MatchLines
              \/ \E m \in MatchLines :
                     k \in DescendantRun(m) \/ k \in Range(AncestorChain(m))

\* C9 (nested descendant match): when a match occurs on a line of the descendant run
\* of an earlier match, the lines of the earlier match's run that follow it are still
\* printed, also those not deeper than the later match.
C9_NestedDescendantMatch ==
    pc = "done"
    => \A outer \in MatchLines, inner \in MatchLines :
           inner \in DescendantRun(outer)
           => \A k \in DescendantRun(outer) :
                  (k > inner /\ NonBlank(k)) => k \in PrintedNumbers

(***************************************************************************)
(* SpecGaps: ellipsis and breaks on or off, without and with a window of   *)
(* one line before and after, Preserve, no descendants; plain and matching *)
(* lines at two indentations and blank lines.                              *)
(***************************************************************************)

InitGaps ==
    \E e \in BOOLEAN, br \in BOOLEAN, w \in {0, 1} :
        Start([default_options EXCEPT !.ellipsis = e, !.breaks = br,
                                      !.context_lines_before = w,
                                      !.context_lines_after = w], FALSE, NoPath)

\* The lines a stream of SpecGaps is made of.
GapsLines ==
    IndentedLines({PlainText, MatchText}, 1) \cup {Blank}

NextGaps ==
    \/ ReadLine(GapsLines)
    \/ EndOfInput

SpecGaps == InitGaps /\ [][NextGaps]_vars

\* The positions of the output that hold a printed line.
PrintedAt == {i \in 1..Len(printer.output) : printer.output[i].event \in {"context", "match"}}

\* Positions p < q hold two consecutively printed lines.
Consecutive(p, q) ==
    /\ p \in PrintedAt
    /\ q \in PrintedAt
    /\ p < q
    /\ \A i \in (p + 1)..(q - 1) : i \notin PrintedAt

\* How many events of the given kind lie strictly between positions p and q.
EventsBetween(p, q, event) ==
    Cardinality({i \in (p + 1)..(q - 1) : printer.output[i].event = event})

\* C10 (gap marking): between two consecutively printed lines a and b no ellipsis is
\* emitted when a break was emitted before b or the ellipsis is disabled; otherwise
\* exactly one is emitted when b > a + 1 and none when b = a + 1.
C10_GapMarking ==
    \A p \in PrintedAt, q \in PrintedAt :
        Consecutive(p, q)
        => LET a == printer.output[p].number
               b == printer.output[q].number
           IN  EventsBetween(p, q, "ellipsis") =
                   IF ~options.ellipsis \/ EventsBetween(p, q, "break") > 0 THEN 0
                   ELSE IF b > a + 1 THEN 1
                   ELSE 0

\* With ellipsis and breaks enabled the output shows a gap marked by an ellipsis and a
\* later gap, across a blank line, marked by a break alone.
C10_Witness ==
    /\ options.ellipsis
    /\ options.breaks
    /\ \E p \in PrintedAt, q \in PrintedAt :
           /\ Consecutive(p, q)
           /\ printer.output[q].number > printer.output[p].number + 1
           /\ EventsBetween(p, q, "ellipsis") = 1
    /\ \E p \in PrintedAt, q \in PrintedAt :
           /\ Consecutive(p, q)
           /\ printer.output[q].number > printer.output[p].number + 1
           /\ EventsBetween(p, q, "break") = 1
           /\ EventsBetween(p, q, "ellipsis") = 0

(***************************************************************************)
(* Breaks                                                                  *)
(***************************************************************************)

\* The positions of the output that hold an event of the given kind.
EventsAt(event) == {i \in 1..Len(printer.output) : printer.output[i].event = event}

\* The position of the last match event before position q, 0 when there is none.
PreviousMatchAt(q) ==
    LET before == {i \in EventsAt("match") : i < q}
    IN  IF before = {} THEN 0 ELSE CHOOSE i \in before : \A j \in before : j <= i

\* Line m is not the first match and a blank line lies between the previous match and it.
BreakDue(m) ==
    /\ \E k \in MatchLines : k < m
    /\ \E b \in 1..(m - 1) : ~NonBlank(b) /\ \A k \in MatchLines : k < m => k < b

\* Between positions p and q of the output there is one break when due is true and
\* none otherwise; only after-context of the previous match precedes the break and only
\* context lines and ellipses follow it.
BreakBetween(p, q, due) ==
    LET breaks == {i \in EventsAt("break") : p < i /\ i < q}
    IN  /\ Cardinality(breaks) = IF due THEN 1 ELSE 0
        /\ \A b \in breaks :
               /\ \A i \in (p + 1)..(b - 1) :
                      /\ printer.output[i].event = "context"
                      /\ printer.output[i].number \in AfterContextLines
               /\ \A i \in (b + 1)..(q - 1) :
                      printer.output[i].event \in {"context", "ellipsis"}

\* C11 (break): with breaks enabled a printed match that is not the first of the stream
\* and has a blank line between the previous match and itself has exactly one break
\* before it, placed before its context lines (only after-context of the previous match
\* precedes the break), also when the blank line lies between the context line and the
\* match; no other match has a break, so the first match has none, and with breaks
\* disabled the output holds no break. A break that no match follows is the one of a
\* match whose context failed the assert! of the printer.
C11_Break ==
    /\ \A q \in EventsAt("match") :
           BreakBetween(PreviousMatchAt(q), q,
                        options.breaks /\ BreakDue(printer.output[q].number))
    /\ LET last == PreviousMatchAt(Len(printer.output) + 1)
           rest == {i \in EventsAt("break") : i > last}
       IN  /\ Cardinality(rest) <= 1
           /\ rest # {} => /\ pc = "panicked"
                           /\ options.breaks
                           /\ is_match(input[Len(input)])
                           /\ BreakDue(Len(input))
    /\ ~options.breaks => EventsAt("break") = {}

\* The second match has a context line, then a blank line, before it: the break is
\* printed before the context line (bla / x / blank / bla, the last one deeper).
C11_Witness ==
    /\ options.breaks
    /\ Len(input) = 4
    /\ MatchLines = {1, 4}
    /\ ~NonBlank(3)
    /\ \E i \in 1..(Len(printer.output) - 2) :
           /\ printer.output[i].event = "break"
           /\ printer.output[i + 1] = [event |-> "context", number |-> 2]
           /\ printer.output[i + 2] = [event |-> "match", number |-> 4]

(***************************************************************************)
(* The merge of the dumps                                                  *)
(***************************************************************************)

\* The lines read so far but the last, numbered.
EarlierLines == [k \in 1..(Len(input) - 1) |-> [number |-> k, text |-> input[k]]]

\* The last line read, numbered.
LastLine == [number |-> Len(input), text |-> input[Len(input)]]

\* The state of process_input before the last line was read.
StateBefore == process_lines(initial_state, options, overflow_checks, filepath, EarlierLines)

\* The window provider and the printer after the window's pre_line on the last line.
WindowAtLastLine ==
    TextualContext_pre_line(StateBefore.textual, LastLine, StateBefore.printer,
                            options, overflow_checks)

\* What the providers dump when the last line matches: each dump after the provider's
\* pre_line on that line.
DumpsAtLastLine ==
    <<TextualContext_dump(WindowAtLastLine.self),
      PreprocessorContext_dump(StateBefore.preprocessor),
      IndentationContext_dump(
          IndentationContext_pre_line(StateBefore.indentation, LastLine,
                                      IndentOf(Len(input)), options))>>
    \o (IF options.children THEN <<ChildrenContext_dump(StateBefore.children)>> ELSE <<>>)

\* The line numbers of all dumps.
DumpedNumbers ==
    UNION {{DumpsAtLastLine[i][j].number : j \in 1..Len(DumpsAtLastLine[i])} :
               i \in 1..Len(DumpsAtLastLine)}

\* The context lines printed for the last line after the window's pre_line.
ContextOfLastLine ==
    EventNumbers(SubSeq(printer.output, Len(WindowAtLastLine.printer.output) + 1,
                        Len(printer.output)), "context")

\* C12 (merge with coalescing): when the last line read matches, the context lines
\* emitted before the match line are the union of the dumps of all providers, in
\* strictly ascending order of line number, each once, all numbered below the match,
\* and the match line follows them.
C12_MergeCoalesce ==
    (pc # "done" /\ input # <<>> /\ is_match(input[Len(input)]))
    => /\ Range(ContextOfLastLine) = DumpedNumbers
       /\ \A i \in 1..(Len(ContextOfLastLine) - 1) :
              ContextOfLastLine[i] < ContextOfLastLine[i + 1]
       /\ \A i \in 1..Len(ContextOfLastLine) : ContextOfLastLine[i] < Len(input)
       /\ printer.output # <<>>
       /\ printer.output[Len(printer.output)] = [event |-> "match", number |-> Len(input)]

(***************************************************************************)
(* real_main and main: one stream from a file or the standard input, or    *)
(* one stream per file that git grep lists.                                *)
(***************************************************************************)

FileA == <<"a">>
FileB == <<"b">>

\* The path the second line of git grep is opened under: the first line, a line feed
\* and the second line.
SecondPath == FileA \o <<"\n">> \o FileB

\* The paths that may name a file.
Paths == {FileA, FileB, SecondPath}

\* What git grep --files-with-matches prints: no file, one file, two files.
GitGrepOutputs == {<<>>, <<FileA>>, <<FileA, FileB>>}

\* How git grep ends: with a status, or killed by a signal (code() is None).
GitGrepStatuses == {"0", "1", "2", "signal"}

\* str::trim_right_matches('\n')
RECURSIVE trim_right_matches(_)
trim_right_matches(text) ==
    IF text # <<>> /\ text[Len(text)] = "\n"
    THEN trim_right_matches(SubSeq(text, 1, Len(text) - 1))
    ELSE text

\* real_main returns Err(e).
ReturnErr(e) ==
    /\ pc' = "returned"
    /\ run' = [run EXCEPT !.error = e]
    /\ UNCHANGED <<options, overflow_checks, filepath, input, match_found, was_empty_line,
                   textual, preprocessor, indentation, children, printer>>

\* real_main returns Ok(code), run being its state r.
ReturnOk(r) ==
    /\ pc' = "returned"
    /\ run' = [r EXCEPT !.code = IF r.match_found THEN 0 ELSE 1]
    /\ UNCHANGED <<options, overflow_checks, filepath, input, match_found, was_empty_line,
                   textual, preprocessor, indentation, children, printer>>

\* The call of process_input with the printer left as the previous stream left it.
CallProcessInputWithoutReset(path, r) ==
    /\ Become([initial_state EXCEPT !.printer = printer])
    /\ filepath' = path
    /\ input' = <<>>
    /\ pc' = "lines"
    /\ run' = r
    /\ UNCHANGED <<options, overflow_checks>>

\* The call of process_input on the stream of path, run becoming r: fresh providers,
\* the printer reset.
CallProcessInput(path, r) ==
    /\ Become([initial_state EXCEPT !.printer = Printer_reset(printer)])
    /\ filepath' = path
    /\ input' = <<>>
    /\ pc' = "lines"
    /\ run' = r
    /\ UNCHANGED <<options, overflow_checks>>

\* real_main up to the first stream: the pre-filter with the standard input is an
\* error; with the pre-filter git grep is spawned, without it the input is opened.
RealMainBegins ==
    /\ pc = "main"
    /\ IF run.use_git_grep
       THEN IF run.input = NoPath
            THEN ReturnErr("GitGrepWithStdinInput")
            ELSE \E out \in GitGrepOutputs :
                    /\ pc' = "list"
                    /\ run' = [run EXCEPT !.listing = out]
                    /\ UNCHANGED <<options, overflow_checks, filepath, input, match_found,
                                   was_empty_line, textual, preprocessor, indentation,
                                   children, printer>>
       ELSE IF run.input # NoPath /\ run.input \notin run.exists
            THEN ReturnErr("open")
            ELSE CallProcessInput(run.input, run)

\* The loop over the lines of git grep: read_line appends to line, which is never
\* cleared; the file named by the trimmed line is opened and processed.
NextListedFile ==
    /\ pc = "list"
    /\ IF run.listing = <<>>
       THEN /\ pc' = "wait"
            /\ UNCHANGED <<options, overflow_checks, filepath, input, match_found,
                           was_empty_line, textual, preprocessor, indentation, children,
                           printer, run>>
       ELSE LET r == [run EXCEPT !.line = @ \o Head(run.listing) \o <<"\n">>,
                                 !.listing = Tail(@)]
                path == trim_right_matches(r.line)
            IN  IF path \in run.exists
                THEN CallProcessInput(path, r)
                ELSE /\ pc' = "returned"
                     /\ run' = [r EXCEPT !.error = "open"]
                     /\ UNCHANGED <<options, overflow_checks, filepath, input, match_found,
                                    was_empty_line, textual, preprocessor, indentation,
                                    children, printer>>

\* read_line on the output of git grep fails: while let Ok(..) ends the loop.
ListingReadFails ==
    /\ pc = "list"
    /\ pc' = "wait"
    /\ UNCHANGED <<options, overflow_checks, filepath, input, match_found, was_empty_line,
                   textual, preprocessor, indentation, children, printer, run>>

\* The read with the error taken for a line to skip: the loop goes on.
ReadErrorSkipped ==
    /\ pc = "lines"
    /\ run.error = "none"
    /\ run' = [run EXCEPT !.error = "read",
                          !.at_error = [output |-> printer.output, lines |-> Len(input),
                                        listing |-> run.listing]]
    /\ UNCHANGED <<options, overflow_checks, filepath, input, pc, match_found,
                   was_empty_line, textual, preprocessor, indentation, children, printer>>

\* process_input: reading the next line fails, `let line = line?` returns the error,
\* and real_main returns it in turn.
ReadError ==
    /\ pc = "lines"
    /\ pc' = "returned"
    /\ run' = [run EXCEPT !.error = "read",
                          !.at_error = [output |-> printer.output, lines |-> Len(input),
                                        listing |-> run.listing]]
    /\ UNCHANGED <<options, overflow_checks, filepath, input, match_found, was_empty_line,
                   textual, preprocessor, indentation, children, printer>>

\* process_input returned Ok(match_found): with the pre-filter the loop over the files
\* goes on, without it real_main returns.
ProcessInputReturns ==
    /\ pc = "done"
    /\ LET r == [run EXCEPT !.match_found = IF run.use_git_grep
                                            THEN @ \/ match_found
                                            ELSE match_found,
                            !.matched = @ \/ MatchLines # {}]
       IN  IF run.use_git_grep
           THEN /\ pc' = "list"
                /\ run' = r
                /\ UNCHANGED <<options, overflow_checks, filepath, input, match_found,
                               was_empty_line, textual, preprocessor, indentation,
                               children, printer>>
           ELSE ReturnOk(r)

\* wait with every status but 0 accepted as failure.
GitGrepWaitOnlyZero ==
    /\ pc = "wait"
    /\ \E status \in GitGrepStatuses :
           IF status = "0"
           THEN ReturnOk([run EXCEPT !.status = status])
           ELSE /\ pc' = "returned"
                /\ run' = [run EXCEPT !.status = status, !.error = "GitGrepFailed"]
                /\ UNCHANGED <<options, overflow_checks, filepath, input, match_found,
                               was_empty_line, textual, preprocessor, indentation,
                               children, printer>>

\* git_grep_process.wait()?.code(): Some(0) and Some(1) are accepted, any other status
\* and None (killed by a signal) are GitGrepFailed.
GitGrepWait ==
    /\ pc = "wait"
    /\ \E status \in GitGrepStatuses :
           IF status = "0" \/ status = "1"
           THEN ReturnOk([run EXCEPT !.status = status])
           ELSE /\ pc' = "returned"
                /\ run' = [run EXCEPT !.status = status, !.error = "GitGrepFailed"]
                /\ UNCHANGED <<options, overflow_checks, filepath, input, match_found,
                               was_empty_line, textual, preprocessor, indentation,
                               children, printer>>

\* main: exit(code) for Ok(code), exit(2) for Err.
MainExits ==
    /\ pc = "returned"
    /\ pc' = "exit"
    /\ run' = [run EXCEPT !.exit_code = IF run.error = "none" THEN run.code ELSE 2]
    /\ UNCHANGED <<options, overflow_checks, filepath, input, match_found, was_empty_line,
                   textual, preprocessor, indentation, children, printer>>

\* A panic (a failed assert!, an arithmetic overflow) unwinds the main thread: the
\* process exits with the status 101 of the Rust runtime.
PanicExits ==
    /\ pc = "panicked"
    /\ pc' = "exit"
    /\ run' = [run EXCEPT !.error = "panic", !.exit_code = 101]
    /\ UNCHANGED <<options, overflow_checks, filepath, input, match_found, was_empty_line,
                   textual, preprocessor, indentation, children, printer>>

(***************************************************************************)
(* SpecRun: real_main with and without the pre-filter, on a file or the    *)
(* standard input, with before-distance 0 or 2; the files hold plain and   *)
(* matching lines.                                                         *)
(***************************************************************************)

InitRun ==
    \E g \in BOOLEAN, i \in {NoPath, FileA}, b \in {0, 2},
       e \in SUBSET Paths :
        /\ options = [default_options EXCEPT !.context_lines_before = b]
        /\ overflow_checks = FALSE
        /\ filepath = NoPath
        /\ input = <<>>
        /\ pc = "main"
        /\ match_found = initial_state.match_found
        /\ was_empty_line = initial_state.was_empty_line
        /\ textual = initial_state.textual
        /\ preprocessor = initial_state.preprocessor
        /\ indentation = initial_state.indentation
        /\ children = initial_state.children
        /\ printer = Printer_new
        /\ run = [NoRun EXCEPT !.use_git_grep = g, !.input = i, !.exists = e]

\* The lines a stream of SpecRun is made of.
RunLines ==
    {PlainText, MatchText}

NextRun ==
    \/ RealMainBegins
    \/ NextListedFile
    \/ ListingReadFails
    \/ ReadLine(RunLines)
    \/ ReadError
    \/ EndOfInput
    \/ ProcessInputReturns
    \/ GitGrepWait
    \/ MainExits
    \/ PanicExits

SpecRun == InitRun /\ [][NextRun]_vars

\* C13 (exit status): the process exits with 2 when a fatal error occurred, whatever
\* was matched before, and otherwise with 0 when a line of a processed stream matched
\* and with 1 when every stream completed without a match.
C13_ExitStatus ==
    pc = "exit"
    => run.exit_code = IF run.error # "none" THEN 2
                       ELSE IF run.matched THEN 0
                       ELSE 1

(***************************************************************************)
(* SpecOutline: the outline provider with smart branches off and on, on    *)
(* an `if` and an `else` line, a deeper plain line, a deeper match, blank  *)
(* lines and directive lines that mode Ignore skips.                       *)
(***************************************************************************)

InitOutline ==
    \E smart \in BOOLEAN :
        Start([default_options EXCEPT !.smart_branches = smart,
                                      !.preprocessor = "Ignore"], FALSE, NoPath)

\* The lines a stream of SpecOutline is made of.
OutlineLines ==
    {Spaces(1) \o PlainText, Spaces(1) \o MatchText, IfText, ElseText, Blank,
     IfDirectiveText}

NextOutline ==
    \/ ReadLine(OutlineLines)
    \/ EndOfInput

SpecOutline == InitOutline /\ [][NextOutline]_vars

\* The stack is sorted bottom-to-top by indentation: strictly without smart branches.
OutlineSorted(context) ==
    \A i \in 1..(Len(context) - 1) :
        IF options.smart_branches
        THEN context[i].indentation <= context[i + 1].indentation
        ELSE context[i].indentation < context[i + 1].indentation

\* The outline provider after its pre_line on the last line read.
OutlineAtLastLine ==
    IndentationContext_pre_line(StateBefore.indentation, LastLine,
                                calculate_indentation(LastLine.text), options)

\* The last line read was handed to the outline provider (it was not skipped).
LastLineHandled == input # <<>> /\ ~(options.preprocessor = "Ignore" /\ IsDirective(Len(input)))

\* C14 (outline invariant): the stack of the outline provider is sorted by indentation,
\* strictly when smart branches is disabled and non-decreasing when it is enabled, after
\* the pre_line of every line, and after the post_line or the clear that ends the step
\* of the line; the assertion of post_line holds for every line that does not match.
C14_OutlineInvariant ==
    /\ OutlineSorted(indentation.context)
    /\ LastLineHandled
       => /\ OutlineSorted(OutlineAtLastLine.context)
          /\ ~IndentationContext_post_line(OutlineAtLastLine, LastLine,
                                           calculate_indentation(LastLine.text),
                                           options).panicked
          /\ indentation =
                 IF is_match(LastLine.text)
                 THEN IndentationContext_clear(OutlineAtLastLine)
                 ELSE IndentationContext_post_line(OutlineAtLastLine, LastLine,
                                                   calculate_indentation(LastLine.text),
                                                   options).self

\* After a match, a blank line and a skipped directive, the stack holds an `if` line and
\* an `else` line of equal indentation.
C14_Witness ==
    /\ options.smart_branches
    /\ \E k \in MatchLines : ~IsDirective(k)
    /\ \E k \in 1..Len(input) : ~NonBlank(k)
    /\ \E k \in 1..Len(input) : IsDirective(k)
    /\ Len(indentation.context) = 2
    /\ indentation.context[1].indentation = indentation.context[2].indentation

(***************************************************************************)
(* SpecWordBoundary: smart branches off and on; `if` lines with a          *)
(* parenthesis, a letter or nothing after the `if`, an `else` line, and    *)
(* plain and matching lines inside the branches.                           *)
(***************************************************************************)

IfNoSpaceText == <<"i", "f", "(", "a", " ", ">", " ", "0", ")", " ", "{">>
IfPrefixText == <<"i", "f", "e", "r", "e", "(", "a", " ", ">", " ", "0", ")", " ", "{">>
IfAloneText == <<"i", "f">>

InitWordBoundary ==
    \E smart \in BOOLEAN :
        Start([default_options EXCEPT !.smart_branches = smart], FALSE, NoPath)

\* The lines a stream of SpecWordBoundary is made of.
WordBoundaryLines ==
    {IfNoSpaceText, IfPrefixText, IfAloneText, ElseText, Spaces(1) \o PlainText,
    Spaces(1) \o MatchText}

NextWordBoundary ==
    \/ ReadLine(WordBoundaryLines)
    \/ EndOfInput

SpecWordBoundary == InitWordBoundary /\ [][NextWordBoundary]_vars

\* Line i starts with the letters `if`, line j is a `} else {` line at the same
\* indentation, every line between them and after j is deeper, and the last line is the
\* only match: line i is on the stack when line j arrives.
IfStackedAtElse(i, j) ==
    LET n == Len(input)
    IN  /\ 1 <= i /\ i < j /\ j < n
        /\ MatchLines = {n}
        /\ \A k \in 1..n : NonBlank(k)
        /\ starts_with(Stripped(i), <<"i", "f">>)
        /\ Stripped(j) = ElseText
        /\ IndentOf(j) = IndentOf(i)
        /\ \A k \in (i + 1)..n : k # j => IndentOf(k) > IndentOf(i)

\* C15 (word-boundary prefix matching): with smart branches enabled, a stacked line that
\* starts with `if` at the indentation of an arriving `} else {` line is kept, and so
\* printed as context of a match in the else branch, exactly when the `if` is followed by
\* nothing or by a character that is not alphanumeric: `if(a > 0) {` is kept,
\* `ifere(a > 0) {` is not.
C15_WordBoundary ==
    options.smart_branches
    => \A i, j \in 1..Len(input) :
           IfStackedAtElse(i, j)
           => (i \in Range(EventNumbers(printer.output, "context"))
               <=> \/ Len(Stripped(i)) = 2
                   \/ ~is_ascii_alphanumeric(Stripped(i)[3]))

\* The streams of test_smart_branches_no_space and test_smart_branches_if_prefix, one
\* after the other: `ifere(a > 0) {` is dropped at the else line, and the match in the
\* else branch prints the else line without it.
C15_Witness ==
    /\ options.smart_branches
    /\ \E i, j \in 1..Len(input) :
           /\ IfStackedAtElse(i, j)
           /\ Stripped(i) = IfPrefixText
           /\ EventNumbers(printer.output, "context") = <<j>>

(***************************************************************************)
(* SpecHeading: a stream with and without a file path under each mode of   *)
(* printing the file name; plain and matching lines at two indentations.   *)
(***************************************************************************)

PrintFilename == {"No", "PerFile", "PerLine"}

StreamPaths == {NoPath, FileA}

InitHeading ==
    \E mode \in PrintFilename, fp \in StreamPaths :
        Start([default_options EXCEPT !.print_filename = mode], FALSE, fp)

\* The lines a stream of SpecHeading is made of.
HeadingLines == IndentedLines({PlainText, MatchText}, 1)

NextHeading == ReadLine(HeadingLines) \/ EndOfInput

SpecHeading == InitHeading /\ [][NextHeading]_vars

\* The positions of the output that the heading step wrote.
HeadingWritten == EventsAt("newline") \cup EventsAt("heading")

\* C16 (filename heading): a stream with a file path has its heading once, before the
\* context of its first match, when the mode is per-file and a line matched; a stream
\* without a match or without a path has none, and in the other modes the heading step
\* writes nothing to the output.
C16_Heading ==
    IF filepath # NoPath /\ options.print_filename = "PerFile" /\ MatchLines # {}
    THEN /\ HeadingWritten = 1..2
         /\ printer.output[2].event = "heading"
    ELSE HeadingWritten = {}

\* The same under the mode per-file and for streams without a path, where the heading
\* step is never taken.
C16_HeadingPerFile ==
    options.print_filename = "PerFile" \/ filepath = NoPath => C16_Heading

\* C17 (I/O error abort): when reading a line of a stream fails, the pass stops at once:
\* no further line is processed and nothing more is printed, no further file that git
\* grep listed is read, real_main returns the error and the process exits with 2.
C17_ReadErrorAborts ==
    run.error = "read"
    => /\ pc = "returned" \/ pc = "exit"
       /\ Len(input) = run.at_error.lines
       /\ printer.output = run.at_error.output
       /\ run.listing = run.at_error.listing
       /\ pc = "exit" => run.exit_code = 2

\* A read fails in the first of two listed files after a match was printed: the process
\* has exited with 2 and the second file is still unread.
C17_Witness ==
    /\ run.error = "read"
    /\ pc = "exit"
    /\ run.exit_code = 2
    /\ run.use_git_grep
    /\ run.listing = <<FileB>>
    /\ Len(input) >= 1
    /\ EventsAt("match") # {}

\* C18 (pre-filter errors): git grep together with the standard input as the source is
\* an error returned before any line is processed; git grep ending with a status other
\* than 0 or 1, or without a status, is an error; both make the process exit with 2,
\* while the statuses 0 and 1 are accepted and the exit status follows the matches.
C18_PrefilterErrors ==
    /\ run.use_git_grep /\ run.input = NoPath /\ pc # "main"
       => /\ run.error = "GitGrepWithStdinInput"
          /\ input = <<>> /\ printer.output = <<>> /\ run.listing = <<>>
          /\ pc = "returned" \/ pc = "exit"
          /\ pc = "exit" => run.exit_code = 2
    /\ run.status = "2" \/ run.status = "signal"
       => /\ run.error = "GitGrepFailed"
          /\ pc = "exit" => run.exit_code = 2
    /\ run.status = "0" \/ run.status = "1"
       => /\ run.error = "none"
          /\ pc = "exit" => run.exit_code = IF run.match_found THEN 0 ELSE 1

\* git grep was killed by a signal after a file it listed was processed and a match was
\* printed: the process has exited with 2.
C18_Witness ==
    /\ pc = "exit"
    /\ run.status = "signal"
    /\ run.exit_code = 2
    /\ run.match_found
    /\ EventsAt("match") # {}

\* git grep was asked to filter the standard input: the process has exited with 2 and
\* nothing was read.
C18_WitnessStdin ==
    /\ pc = "exit"
    /\ run.use_git_grep /\ run.input = NoPath
    /\ run.exit_code = 2
    /\ input = <<>>

(***************************************************************************)
(* SpecTwice: process_input is called on a stream and then, with a fresh   *)
(* printer and fresh providers, a second time on the same lines; heading,  *)
(* breaks and ellipsis on, before-distance 0 or 2, with and without        *)
(* descendants.                                                            *)
(***************************************************************************)

InitTwice ==
    \E b \in {0, 2}, c \in BOOLEAN :
        Start([default_options EXCEPT !.print_filename = "PerFile",
                                      !.breaks = TRUE,
                                      !.ellipsis = TRUE,
                                      !.children = c,
                                      !.context_lines_before = b], FALSE, FileA)

\* The lines a stream of SpecTwice is made of.
TwiceLines == {PlainText, MatchText, Spaces(1) \o MatchText, Blank}

\* What the next read can give: any line in the first call, in the second call the line
\* the first call read at that place.
NextLineRead ==
    IF ~run.second THEN TwiceLines
    ELSE IF Len(input) < Len(run.first.lines) THEN {run.first.lines[Len(input) + 1]}
    ELSE {}

\* The second call starts where the first left the printer.
SecondCallOnUsedPrinter ==
    /\ pc = "done" \/ pc = "panicked"
    /\ ~run.second
    /\ Become([initial_state EXCEPT !.printer = printer])
    /\ input' = <<>>
    /\ pc' = "lines"
    /\ run' = [run EXCEPT !.second = TRUE,
                          !.first = [lines |-> input, output |-> printer.output,
                                     match_found |-> match_found,
                                     panicked |-> pc = "panicked"]]
    /\ UNCHANGED <<options, overflow_checks, filepath>>

\* The first call is over: Printer::new on an empty buffer and process_input again.
SecondCall ==
    /\ pc = "done" \/ pc = "panicked"
    /\ ~run.second
    /\ Become(initial_state)
    /\ input' = <<>>
    /\ pc' = "lines"
    /\ run' = [run EXCEPT !.second = TRUE,
                          !.first = [lines |-> input, output |-> printer.output,
                                     match_found |-> match_found,
                                     panicked |-> pc = "panicked"]]
    /\ UNCHANGED <<options, overflow_checks, filepath>>

NextTwice ==
    \/ ReadLine(NextLineRead)
    \/ (run.second => Len(input) = Len(run.first.lines)) /\ EndOfInput
    \/ SecondCall

SpecTwice == InitTwice /\ [][NextTwice]_vars

C20_PrintedIncreasing ==
    /\ ~overflow_checks => pc # "panicked"
    /\ \A i, j \in PrintedAt :
           i < j => printer.output[i].number < printer.output[j].number

\* The second half alone: what was printed is strictly increasing.
C20_OutputIncreasing ==
    \A i, j \in PrintedAt : i < j => printer.output[i].number < printer.output[j].number

(***************************************************************************)
(* SpecSkip: directive modes Ignore and Context, with and without          *)
(* descendants, window 0 or 1; plain lines at two indentations, a match,   *)
(* an `#if` line that holds the pattern and an `#else` line.               *)
(***************************************************************************)

SkipModes == {"Ignore", "Context"}

InitSkip ==
    \E mode \in SkipModes, c \in BOOLEAN, w \in {0, 1} :
        Start([default_options EXCEPT !.preprocessor = mode,
                                      !.children = c,
                                      !.context_lines_before = w,
                                      !.context_lines_after = w], FALSE, NoPath)

\* The lines a stream of SpecSkip is made of.
SkipLines ==
    {PlainText, Spaces(1) \o PlainText, MatchText, IfDirectiveText, ElseDirectiveText}

NextSkip == ReadLine(SkipLines) \/ EndOfInput

SpecSkip == InitSkip /\ [][NextSkip]_vars

\* The last line read is a directive line under a mode that skips them, and its step
\* is the last that was taken.
LastLineSkipped ==
    /\ input # <<>>
    /\ pc = "lines"
    /\ options.preprocessor # "Preserve"
    /\ IsDirective(Len(input))

\* s is what is left of t when entries are taken from its front.
IsSuffix(s, t) ==
    /\ Len(s) <= Len(t)
    /\ s = SubSeq(t, Len(t) - Len(s) + 1, Len(t))

C22_DescendantArming ==
    (input # <<>> /\ pc = "lines" /\ is_match(input[Len(input)]))
    => children.match_indentation = IndentOf(Len(input))

\* The same for a match that finds the provider not armed.
C22_ArmingWhenNotArmed ==
    (input # <<>> /\ pc = "lines" /\ is_match(input[Len(input)])
        /\ StateBefore.children.match_indentation = NoIndentation)
    => children.match_indentation = IndentOf(Len(input))

\* Lines i to k are a chain of branch headers at one indentation: line i starts with the
\* word `if`, line k is `} else {`, every line between them at that indentation starts
\* with `} else if`, every other line after i is deeper, and the last line, inside the
\* last branch, is the only match.
BranchChain(i, k) ==
    LET n == Len(input)
        header(j) == /\ IndentOf(j) = IndentOf(i)
                     /\ starts_with(Stripped(j), <<"}", " ", "e", "l", "s", "e", " ", "i", "f">>)
    IN  /\ 1 <= i /\ i < k /\ k < n
        /\ MatchLines = {n}
        /\ \A j \in 1..n : NonBlank(j)
        /\ starts_with_word(Stripped(i), <<"i", "f">>)
        /\ Stripped(k) = ElseText
        /\ IndentOf(k) = IndentOf(i)
        /\ \A j \in (i + 1)..(k - 1) : header(j) \/ IndentOf(j) > IndentOf(i)
        /\ \A j \in (k + 1)..n : IndentOf(j) > IndentOf(i)

\* The headers of the chain from line i to line k.
ChainHeaders(i, k) == {j \in i..k : IndentOf(j) = IndentOf(i)}

\* C23 (all branches of a chain are preserved): with smart branches enabled and a match
\* inside the last branch of a chain `if … {` / `} else if … {` / `} else {`, every header
\* of the chain is printed as context of the match.
C23_ChainPreserved ==
    options.smart_branches
    => \A i, k \in 1..Len(input) :
           BranchChain(i, k)
           => ChainHeaders(i, k) \subseteq Range(EventNumbers(printer.output, "context"))

\* The same for the chains without a `} else if` header.
C23_IfElsePreserved ==
    options.smart_branches
    => \A i, k \in 1..Len(input) :
           (BranchChain(i, k) /\ ChainHeaders(i, k) = {i, k})
           => ChainHeaders(i, k) \subseteq Range(EventNumbers(printer.output, "context"))

\* The state of process_input after the loop over all the lines read, before end().
StateBeforeEnd ==
    process_lines(initial_state, options, overflow_checks, filepath, NumberedInput)

\* The context events of the buffered entries whose forced-print flag is set, in the
\* order of the buffer.
FlaggedEvents(context) ==
    LET flagged == SelectSeq(context, LAMBDA e : e.print_on_discard)
    IN  [i \in 1..Len(flagged) |-> [event |-> "context", number |-> flagged[i].line.number]]

\* end() was called: the stream ended, or the run panicked after the last line's step.
EndCalled == pc = "done" \/ (pc = "panicked" /\ ~StateBeforeEnd.panicked)

\* C24 (end-of-stream flush): end() on the window provider emits every buffered entry
\* whose forced-print flag is set, in ascending line order, wherever the entry stands in
\* the buffer.
C24_EndFlush ==
    EndCalled
    => printer.output
           = StateBeforeEnd.printer.output \o FlaggedEvents(StateBeforeEnd.textual.context)

\* The same when the flagged entries are the front of the buffer and none of them was
\* printed before.
C24_EndFlushFront ==
    LET context == StateBeforeEnd.textual.context
    IN  (/\ EndCalled
         /\ \A i, j \in 1..Len(context) :
                (i < j /\ context[j].print_on_discard) => context[i].print_on_discard
         /\ \A i \in 1..Len(context) :
                context[i].print_on_discard
                => context[i].line.number > StateBeforeEnd.printer.last_printed_lineno)
        => printer.output = StateBeforeEnd.printer.output \o FlaggedEvents(context)

\* The directive scopes after line k as the directive mode Context defines them: the
\* nesting level, and the If and Else lines of the scopes still open with their levels.
\* An If line opens a scope, an Else line belongs to the current one, an Endif line
\* closes the current one.
RECURSIVE ScopesAfter(_)
ScopesAfter(k) ==
    IF k = 0 THEN [level |-> 0, open |-> <<>>]
    ELSE LET s == ScopesAfter(k - 1)
             kind == KindOf(k)
         IN  IF kind = "If"
             THEN [level |-> s.level + 1,
                   open |-> Append(s.open, [number |-> k, level |-> s.level + 1])]
             ELSE IF kind = "Else"
             THEN [s EXCEPT !.open = Append(@, [number |-> k, level |-> s.level])]
             ELSE IF kind = "Endif"
             THEN [level |-> s.level - 1,
                   open |-> SelectSeq(s.open, LAMBDA e : e.level < s.level)]
             ELSE s

\* Every Else and Endif line of the stream stands inside a scope that an If line opened.
WellNested ==
    \A k \in 1..Len(input) :
        (KindOf(k) = "Else" \/ KindOf(k) = "Endif") => ScopesAfter(k - 1).level >= 1

\* The directive lines printed as context.
DirectivesInContext ==
    {k \in Range(EventNumbers(printer.output, "context")) : KindOf(k) # "None"}

\* C25 (Endif closes its scope): in Context mode, after an Endif line read at nesting
\* level L >= 1 the directive stack holds no entry of level >= L and the level is L - 1;
\* the first match of a well-nested stream after an Endif line has as directive context
\* the If and Else lines of the scopes still open, and none of a closed scope.
C25_EndifClosesScope ==
    LET n == Len(input)
    IN  /\ (n >= 1 /\ pc = "lines" /\ KindOf(n) = "Endif"
               /\ StateBefore.preprocessor.level >= 1)
           => /\ preprocessor.level = StateBefore.preprocessor.level - 1
              /\ \A i \in 1..Len(preprocessor.context) :
                     preprocessor.context[i].level < StateBefore.preprocessor.level
        /\ (n >= 1 /\ pc = "lines" /\ OrdinaryMatchLines = {n} /\ WellNested
               /\ \E k \in 1..n : KindOf(k) = "Endif")
           => DirectivesInContext
                  = {ScopesAfter(n - 1).open[i].number :
                         i \in 1..Len(ScopesAfter(n - 1).open)}

\* The half of it that is about the closed scopes: no If or Else line of a scope that an
\* Endif line closed is printed with a later match.
C25_ClosedScopeNotShown ==
    LET n == Len(input)
    IN  /\ (n >= 1 /\ pc = "lines" /\ KindOf(n) = "Endif"
               /\ StateBefore.preprocessor.level >= 1)
           => /\ preprocessor.level = StateBefore.preprocessor.level - 1
              /\ \A i \in 1..Len(preprocessor.context) :
                     preprocessor.context[i].level < StateBefore.preprocessor.level
        /\ (n >= 1 /\ pc = "lines" /\ OrdinaryMatchLines = {n} /\ WellNested)
           => DirectivesInContext
                  \subseteq {ScopesAfter(n - 1).open[i].number :
                                 i \in 1..Len(ScopesAfter(n - 1).open)}

\* C26 (directive stack invariant): in Context mode the directive stack is sorted
\* bottom-to-top by non-decreasing nesting level and by increasing line number, and no
\* entry has a level greater than the level counter.
C26_DirectiveStackInvariant ==
    LET context == preprocessor.context
    IN  /\ \A i \in 1..(Len(context) - 1) :
               /\ ~unsigned_less(context[i + 1].level, context[i].level)
               /\ context[i].line.number < context[i + 1].line.number
        /\ \A i \in 1..Len(context) : ~unsigned_less(preprocessor.level, context[i].level)

\* The directive stack holds no entry.
DirectiveStackEmpty == preprocessor.context = <<>>


\* C27 (no level underflow): in Context mode the nesting-level counter is never
\* decremented below zero, whatever the stream: an Endif line read at level 0 neither
\* aborts the run on the decrement nor leaves the counter below zero.
C27_NoLevelUnderflow ==
    /\ preprocessor.level >= 0
    /\ ~(/\ pc = "panicked"
         /\ KindOf(Len(input)) = "Endif"
         /\ StateBefore.preprocessor.level = 0)

\* What does hold of the counter: it follows the scopes of the stream line by line, so
\* it is below zero exactly when the stream has closed more scopes than it opened, and
\* the run aborts on an Endif line exactly when it is read at level 0 with overflow checks.
C27_LevelFollowsScopes ==
    /\ pc = "lines" => preprocessor.level = ScopesAfter(Len(input)).level
    /\ pc = "panicked"
           => /\ overflow_checks
              /\ KindOf(Len(input)) = "Endif"
              /\ ScopesAfter(Len(input) - 1).level = 0


\* C28 (no underflow in the window bound): when line n is read with a non-empty window
\* and before-distance B > n, the expiry test of the window's pre_line does not
\* underflow: the run does not abort on it and no entry is popped.
C28_NoWindowUnderflow ==
    LET n == Len(input)
        B == options.context_lines_before
    IN  (n >= 1 /\ StateBefore.textual.context # <<>> /\ n < B)
        => /\ ~WindowAtLastLine.printer.panicked
           /\ WindowAtLastLine.self.context = StateBefore.textual.context

\* What does hold of the expiry: when line n is read with B <= n, pre_line pops exactly
\* the entries numbered below n - B, unless the printer aborts the run on one of them.
C28_ExpiryFromLineB ==
    LET n == Len(input)
        B == options.context_lines_before
    IN  (n >= 1 /\ n >= B /\ ~WindowAtLastLine.printer.panicked)
        => WindowAtLastLine.self.context
               = SelectSeq(StateBefore.textual.context, LAMBDA e : e.line.number >= n - B)


(***************************************************************************)
(* SpecDistance: a window of every size with directives ignored; plain,    *)
(* matching and directive lines, so that a line of the window's range may  *)
(* be skipped or match.                                                    *)
(***************************************************************************)

InitDistance ==
    \E b \in 0..MaxBefore, a \in 0..MaxAfter, oc \in BOOLEAN :
        Start([default_options EXCEPT !.preprocessor = "Ignore",
                                      !.context_lines_before = b,
                                      !.context_lines_after = a], oc, NoPath)

\* The lines a stream of SpecDistance is made of.
DistanceLines == {PlainText, MatchText, IfDirectiveText}

NextDistance ==
    \/ ReadLine(DistanceLines)
    \/ EndOfInput

SpecDistance == InitDistance /\ [][NextDistance]_vars

\* The numbers of the entries the window holds after its pre_line on the last line.
WindowNumbersAtLastLine ==
    [i \in 1..Len(WindowAtLastLine.self.context) |->
        WindowAtLastLine.self.context[i].line.number]

\* C29 (window buffer bound): after the window's pre_line for line n, every buffered
\* entry has a line number in [n-B, n-1] and the entries are in strictly increasing order
\* of line number; a skipped or a matching line of that range is not buffered.
C29_WindowBound ==
    LET n == Len(input)
        B == options.context_lines_before
        numbers == WindowNumbersAtLastLine
    IN  (n >= 1 /\ ~WindowAtLastLine.printer.panicked)
        => /\ \A i \in 1..Len(numbers) : n - B <= numbers[i] /\ numbers[i] <= n - 1
           /\ \A i \in 1..(Len(numbers) - 1) : numbers[i] < numbers[i + 1]
           /\ \A i \in 1..Len(numbers) :
                  ~is_match(input[numbers[i]]) /\ ~IsDirective(numbers[i])

\* Line 5 is read with B = 2 after two plain lines, a directive line and a plain line:
\* the window held lines 2 and 4, line 2 expires, line 3 of the range [3, 4] was skipped,
\* and the window holds line 4 alone.
C29_Witness ==
    /\ Len(input) = 5
    /\ options.context_lines_before = 2
    /\ Len(StateBefore.textual.context) = 2
    /\ Head(StateBefore.textual.context).line.number = 2
    /\ IsDirective(3)
    /\ ~WindowAtLastLine.printer.panicked
    /\ WindowNumbersAtLastLine = <<4>>


(***************************************************************************)
(* The state after a match                                                 *)
(***************************************************************************)

\* The state of process_input before line k was read.
StateBeforeLine(k) ==
    process_lines(initial_state, options, overflow_checks, filepath,
                  [j \in 1..(k - 1) |-> [number |-> j, text |-> input[j]]])

\* The line numbers the providers dump for line k: each dump after the provider's
\* pre_line on that line.
DumpedNumbersAt(k) ==
    LET S == StateBeforeLine(k)
        line == [number |-> k, text |-> input[k]]
        window == TextualContext_dump(
                      TextualContext_pre_line(S.textual, line, S.printer,
                                              options, overflow_checks).self)
        directives == PreprocessorContext_dump(S.preprocessor)
        outline == IndentationContext_dump(
                       IndentationContext_pre_line(S.indentation, line, IndentOf(k), options))
        descendants == IF options.children THEN ChildrenContext_dump(S.children) ELSE <<>>
        all == window \o directives \o outline \o descendants
    IN  {all[i].number : i \in 1..Len(all)}

\* The matching lines that reach the matcher: those no provider skips.
HandledMatchLines ==
    {k \in MatchLines : options.preprocessor = "Preserve" \/ ~IsDirective(k)}

\* The line numbers the providers hold.
StoredNumbers ==
    {textual.context[i].line.number : i \in 1..Len(textual.context)}
    \cup {preprocessor.context[i].line.number : i \in 1..Len(preprocessor.context)}
    \cup {indentation.context[i].line.number : i \in 1..Len(indentation.context)}
    \cup {children.context[i].number : i \in 1..Len(children.context)}

\* The step of the last line read handled a match and returned.
MatchJustHandled ==
    /\ input # <<>>
    /\ pc = "lines"
    /\ Len(input) \in HandledMatchLines

\* C30 (state after a match): immediately after the step that handles a matching line
\* the outline stack, the directive stack and the descendant buffer are empty and the
\* matched line is stored in no provider; no line that was dumped as context for a
\* match is dumped again at a later match.
C30_StateAfterMatch ==
    /\ MatchJustHandled
       => /\ indentation.context = <<>>
          /\ preprocessor.context = <<>>
          /\ children.context = <<>>
          /\ Len(input) \notin StoredNumbers
    /\ \A m, n \in HandledMatchLines :
           m < n => DumpedNumbersAt(m) \cap DumpedNumbersAt(n) = {}

\* The half of it that holds: after the step of a match the two stacks and the
\* descendant buffer are empty, the matched line is stored nowhere, and the window holds
\* exactly what its pre_line on that line left.
C30_StacksEmptyAfterMatch ==
    MatchJustHandled
    => /\ indentation.context = <<>>
       /\ preprocessor.context = <<>>
       /\ children.context = <<>>
       /\ Len(input) \notin StoredNumbers
       /\ textual.context = WindowAtLastLine.self.context


(***************************************************************************)
(* SpecBlank: every directive mode, a window of 0 or 2 lines on both       *)
(* sides; blank and whitespace-only lines between plain, matching and      *)
(* directive lines.                                                        *)
(***************************************************************************)

WindowSizes == {0, 2}

InitBlank ==
    \E mode \in Preprocessors, w \in WindowSizes :
        Start([default_options EXCEPT !.preprocessor = mode,
                                      !.context_lines_before = w,
                                      !.context_lines_after = w], FALSE, NoPath)

\* The lines a stream of SpecBlank is made of.
BlankLines == {Blank, Spaces(1), Spaces(1) \o PlainText, MatchText, IfDirectiveText}

NextBlank ==
    \/ ReadLine(BlankLines)
    \/ EndOfInput

SpecBlank == InitBlank /\ [][NextBlank]_vars

\* The text is empty or holds whitespace only.
IsBlankText(text) == \A i \in 1..Len(text) : is_whitespace(text[i])

\* The step of the last line read, a blank or whitespace-only line, has returned.
BlankJustRead ==
    /\ input # <<>>
    /\ pc = "lines"
    /\ IsBlankText(input[Len(input)])

\* C31 (blank lines are structurally transparent): a blank or whitespace-only line, which
\* does not match, leaves the outline stack, the directive stack and the directive level
\* as they were and is not skipped: it is appended to the window buffer, flagged for
\* printing when the trailing counter is positive, which it then decrements, and it sets
\* the blank-seen flag; nothing is printed for it but what the window's pre_line printed.
C31_BlankTransparent ==
    BlankJustRead
    => /\ indentation = StateBefore.indentation
       /\ preprocessor = StateBefore.preprocessor
       /\ textual.context
              = Append(WindowAtLastLine.self.context,
                       [line |-> LastLine,
                        print_on_discard |-> StateBefore.textual.trailing_lines_left > 0])
       /\ textual.trailing_lines_left
              = IF StateBefore.textual.trailing_lines_left > 0
                THEN StateBefore.textual.trailing_lines_left - 1
                ELSE 0
       /\ was_empty_line
       /\ printer = WindowAtLastLine.printer
       /\ match_found = StateBefore.match_found

\* In Context mode a whitespace-only line is read at directive level 1 with a line on the
\* outline stack and a trailing counter that is positive.
C31_Witness ==
    /\ BlankJustRead
    /\ input[Len(input)] = Spaces(1)
    /\ options.preprocessor = "Context"
    /\ StateBefore.preprocessor.level = 1
    /\ StateBefore.indentation.context # <<>>
    /\ StateBefore.textual.trailing_lines_left > 0
    /\ ~StateBefore.was_empty_line


(***************************************************************************)
(* Several streams, one after another                                      *)
(***************************************************************************)

\* process_input was called and has read no line yet.
StreamStarts == pc = "lines" /\ input = <<>>

RECURSIVE lines_of(_)
lines_of(text) ==
    IF text = <<>> THEN <<>>
    ELSE LET feeds == {i \in 1..Len(text) : text[i] = "\n"}
             first == CHOOSE i \in feeds : \A j \in feeds : i <= j
         IN  <<SubSeq(text, 1, first - 1)>> \o lines_of(SubSeq(text, first + 1, Len(text)))

\* The paths git grep has listed and real_main has read.
ListedSoFar == lines_of(run.line)

\* C33 (pre-filter file iteration): each path git grep lists is opened under exactly the
\* name that was listed and processed as its own stream, in the listed order: the stream
\* being processed is that of the path read last, real_main fails to open only a listed
\* path that names no file, and the match result of a run that ends without an error is
\* the disjunction of the results of the streams.
C33_PrefilterIteration ==
    (run.use_git_grep /\ ListedSoFar # <<>>)
    => LET last == ListedSoFar[Len(ListedSoFar)]
       IN  /\ pc \in {"lines", "done", "panicked"} => filepath = last
           /\ (pc = "returned" /\ run.error = "open") => last \notin run.exists
           /\ (pc = "exit" /\ run.error = "none") => (run.exit_code = 0) = run.matched

\* What does hold of the iteration: the first listed path is opened under its name, a
\* later one under the name made of all lines read so far joined by line feeds, and the
\* match result of a run without an error is the disjunction of the results of the
\* streams that were processed.
C33_FirstListedFile ==
    (run.use_git_grep /\ ListedSoFar # <<>>)
    => /\ pc \in {"lines", "done", "panicked"}
              => /\ filepath = trim_right_matches(run.line)
                 /\ Len(ListedSoFar) = 1 => filepath = ListedSoFar[1]
       /\ (pc = "returned" /\ run.error = "open")
              => trim_right_matches(run.line) \notin run.exists
       /\ (pc = "exit" /\ run.error = "none") => (run.exit_code = 0) = run.matched


\* C34 (ancestors are always shown): in Preserve mode with smart branches off, whatever
\* the number of matches, every indentation ancestor of every matching line that is
\* printed stands in the output before that match line, as context of this match or as
\* a line printed for an earlier match; and every matching line is printed.
C34_AncestorsShown ==
    /\ \A q \in EventsAt("match") :
           LET chain == AncestorChain(printer.output[q].number)
           IN  \A i \in 1..Len(chain) :
                   \E p \in 1..(q - 1) :
                       /\ p \in PrintedAt
                       /\ printer.output[p].number = chain[i]
    /\ Range(EventNumbers(printer.output, "match")) = MatchLines

\* Two matches: line 1 is an ancestor of both and was printed for the first, line 3 is an
\* ancestor of the second only and is printed as its context.
C34_Witness ==
    /\ Len(input) = 4
    /\ MatchLines = {2, 4}
    /\ AncestorChain(2) = <<1>>
    /\ AncestorChain(4) = <<1, 3>>
    /\ EventNumbers(printer.output, "context") = <<1, 3>>
    /\ EventNumbers(printer.output, "match") = <<2, 4>>

(***************************************************************************)
(* SpecDirectives: directive mode Context under both builds; plain and     *)
(* matching lines and a directive line of every kind, two of which hold    *)
(* the pattern.                                                            *)
(***************************************************************************)

InitDirectives ==
    \E oc \in BOOLEAN :
        Start([default_options EXCEPT !.preprocessor = "Context"], oc, NoPath)

\* The lines a stream of SpecDirectives is made of.
DirectivesLines == {PlainText, MatchText} \cup DirectiveTexts

NextDirectives ==
    \/ ReadLine(DirectivesLines)
    \/ EndOfInput

SpecDirectives == InitDirectives /\ [][NextDirectives]_vars

\* C35 (directive lines are not match candidates in Context mode): a line classified as
\* If, Else, Endif or Other is never printed as a match, even when it holds the pattern,
\* and its step changes neither match_found nor the output; an Endif or Other line is
\* never printed at all, so that an If or Else line is printed as context if at all.
C35_DirectivesNotMatched ==
    /\ \A q \in EventsAt("match") : KindOf(printer.output[q].number) = "None"
    /\ \A q \in PrintedAt :
           KindOf(printer.output[q].number) \in {"None", "If", "Else"}
    /\ match_found = (OrdinaryMatchLines # {})
    /\ (input # <<>> /\ KindOf(Len(input)) # "None")
       => /\ match_found = StateBefore.match_found
          /\ printer.output = StateBefore.printer.output

\* An If line and an Other line that hold the pattern were read, and nothing has matched.
C35_Witness ==
    /\ pc = "lines"
    /\ \E k \in MatchLines : KindOf(k) = "If"
    /\ \E k \in MatchLines : KindOf(k) = "Other"
    /\ KindOf(Len(input)) = "Else"
    /\ ~match_found
    /\ printer.output = <<>>


\* The step of the last line read, which does not match, has returned.
NoMatchJustRead ==
    /\ input # <<>>
    /\ pc = "lines"
    /\ ~is_match(input[Len(input)])

\* C36 (blank lines inside a descendant run): while the descendant provider is armed, a
\* line that does not match is buffered and leaves the provider armed when it is blank
\* or indented deeper than the threshold; a non-blank line indented no deeper than the
\* threshold disarms the provider and is not buffered; a provider that is not armed
\* buffers nothing and stays so.
C36_BlankInDescendantRun ==
    NoMatchJustRead
    => LET before == StateBefore.children
           n == Len(input)
       IN  IF before.match_indentation = NoIndentation
           THEN /\ children.match_indentation = NoIndentation
                /\ children.context = before.context
           ELSE IF ~NonBlank(n) \/ IndentOf(n) > before.match_indentation
           THEN /\ children.match_indentation = before.match_indentation
                /\ children.context = Append(before.context, LastLine)
           ELSE /\ children.match_indentation = NoIndentation
                /\ children.context = before.context

\* After a match at indentation 0 a deeper line and a blank line were buffered, and the
\* line at indentation 0 read last disarms the provider without being buffered.
C36_Witness ==
    /\ NoMatchJustRead
    /\ Len(input) = 4
    /\ StateBefore.children.match_indentation = 0
    /\ IndentOf(2) = 1
    /\ ~NonBlank(3)
    /\ IndentOf(4) = 0
    /\ children.match_indentation = NoIndentation
    /\ children.context = <<[number |-> 2, text |-> input[2]], [number |-> 3, text |-> input[3]]>>


\* The position of the first printed line in the output, 0 when no line was printed.
FirstPrintedAt ==
    IF PrintedAt = {} THEN 0 ELSE CHOOSE p \in PrintedAt : \A q \in PrintedAt : p <= q

\* C37 (leading gap): with ellipsis enabled, the first printed line of a stream is
\* preceded by an ellipsis if and only if its number is greater than 1; the ellipsis is
\* then the one event that directly precedes the line, and no break precedes it.
C37_LeadingGap ==
    (options.ellipsis /\ FirstPrintedAt # 0)
    => LET f == FirstPrintedAt
           leading == {i \in 1..(f - 1) : printer.output[i].event = "ellipsis"}
       IN  /\ (leading # {}) = (printer.output[f].number > 1)
           /\ leading \subseteq {f - 1}
           /\ \A i \in 1..(f - 1) : printer.output[i].event # "break"

\* With ellipsis enabled the first printed line is line 2, after an ellipsis.
C37_Witness ==
    /\ options.ellipsis
    /\ Len(printer.output) >= 2
    /\ printer.output[1].event = "ellipsis"
    /\ FirstPrintedAt = 2
    /\ printer.output[2].number = 2

\* With ellipsis enabled the first printed line is line 1 and no ellipsis precedes it.
C37_WitnessFirstLine ==
    /\ options.ellipsis
    /\ FirstPrintedAt = 1
    /\ printer.output[1].number = 1


(***************************************************************************)
(* SpecArguments: the options are those parse_arguments makes of a command *)
(* line with or without --no-breaks, --children and --ellipsis; plain and  *)
(* matching lines at two indentations and blank lines.                     *)
(***************************************************************************)

\* The command lines: which of the flags are present.
CommandLines == [no_breaks : BOOLEAN, children : BOOLEAN, ellipsis : BOOLEAN]

\* parse_arguments with breaks taken from --no-breaks alone.
parse_arguments_breaks_from_flag(args) ==
    [breaks |-> ~args.no_breaks,
     ellipsis |-> args.ellipsis,
     print_filename |-> "No",
     smart_branches |-> TRUE,
     preprocessor |-> "Context",
     context_lines_before |-> 0,
     context_lines_after |-> 0,
     children |-> args.children]

\* parse_arguments: the Options of a command line that names, of the options of the
\* model, at most --no-breaks, --children and --ellipsis; the others get their defaults.
parse_arguments(args) ==
    [breaks |-> ~args.no_breaks /\ ~args.children,
     ellipsis |-> args.ellipsis,
     print_filename |-> "No",
     smart_branches |-> TRUE,
     preprocessor |-> "Context",
     context_lines_before |-> 0,
     context_lines_after |-> 0,
     children |-> args.children]

InitArguments ==
    \E args \in CommandLines : Start(parse_arguments(args), FALSE, NoPath)

\* The lines a stream of SpecArguments is made of.
ArgumentsLines ==
    IndentedLines({PlainText, MatchText}, 1) \cup {Blank}

NextArguments ==
    \/ ReadLine(ArgumentsLines)
    \/ EndOfInput

SpecArguments == InitArguments /\ [][NextArguments]_vars

\* C38 (descendant printing disables breaks): when --children is given the options have
\* breaks off, with and without --no-breaks, and no break is printed in the run.
C38_ChildrenDisableBreaks ==
    options.children => ~options.breaks /\ EventsAt("break") = {}

\* With --children a second match was printed after a blank line that followed the
\* first match, where a break is due, and the stream has ended.
C38_Witness ==
    /\ options.children
    /\ pc = "done"
    /\ \E m \in MatchLines : BreakDue(m)
    /\ Len(EventNumbers(printer.output, "match")) >= 2

\* Without --children and without --no-breaks the break is printed.
C38_WitnessBreak ==
    /\ ~options.children
    /\ options.breaks
    /\ pc = "done"
    /\ EventsAt("break") # {}

====
